---- MODULE Spec2Model ----
(***************************************************************************)
(* A model of the greenlight movie API: the movie store with its           *)
(* optimistic-concurrency update and the handlers that use it, the users,  *)
(* tokens and permissions behind the authenticate middleware and the       *)
(* authorization gates, and the per-client rate limiter.                   *)
(*                                                                         *)
(* The backing store is modelled as the statements of the data layer act   *)
(* on it: every statement is one atomic step, and it answers (connection   *)
(* faults and the 3 second deadline are left out).  A statement the store  *)
(* cannot execute at all, because its text is ill-formed, returns an error *)
(* on every call.                                                          *)
(***************************************************************************)
EXTENDS Integers, Sequences, FiniteSets, TLC

(***************************************************************************)
(* Bounds of the model.                                                    *)
(***************************************************************************)
\* Number of movie requests (POST, GET, PATCH, DELETE) in one behaviour.
MaxReq == 3
\* Number of callers of Update, and of Update calls in one behaviour.
MaxCallers == 2
MaxCalls == 4
\* Number of requests in the middleware chain at one time, of tokens generated and
\* of users in one behaviour, and the last day of the clock.
MaxAuthReq == 1
MaxTokens == 2
MaxUsers == 3
MaxNow == 3
\* The largest burst of the limiter, the number of goroutines in rateLimit at one
\* time, and the last minute of the limiter's clock.
MaxBurst == 2
MaxGo == 2
MaxClock == 5
\* The number of requests rateLimit decides in one behaviour.
MaxArrivals == 3
\* The number of handler calls on given store outcomes in one behaviour.
MaxOutcomes == 2

\* The most rows of the movies table in the runs that page through it.
MaxRows == 5

\* The most calls made on one Validator.
MaxChecks == 3

\* The most PUT /v1/users/activated requests in the runs that race them.
MaxActivations == 3
\* The number of calls of registerUserHandler in one behaviour.
MaxReg == 2
\* The number of requests in the middleware pipeline at one time, and of requests
\* the metrics count in one behaviour.
MaxPipe == 2
MaxReceived == 3
\* The year time.Now().Year() answers while the requests are validated.
CurrentYear == 2026

VARIABLES
    movies,     \* the movies table: id -> row, for the rows that exist
    nextId,     \* the next value of the movies id sequence (bigserial)
    mreq,       \* the movie requests: request -> its handler's position and locals
    users,      \* the users table: id -> row
    nextUserId, \* the next value of the users id sequence
    snap,       \* callers of Update: caller -> the record it read and passes
    updLog,     \* the Update calls made so far, in order, with what each did
    perms,      \* the users_permissions table: user id -> permission codes
    tokens,     \* the tokens table: a set of rows
    now,        \* the clock time.Now() reads, in days
    issued,     \* every token TokenModel.New returned, and whether it was revoked since
    areq,       \* the requests in the middleware chain: request -> position and locals
    cfg,        \* app.config.limiter: enabled, burst, and ticks per refilled token
    clock,      \* the clock of the rate limiter, in minutes
    clients,    \* rateLimit's map: ip -> the client's limiter and lastSeen
    mu,         \* rateLimit's mutex: the goroutine holding it, or Free
    rpc,        \* the goroutines serving requests in rateLimit: position, ip
    sweep,      \* the goroutine purging the map: position, end of its sleep
    rlog,       \* per ip, what Allow answered so far, in order, from when on
    preq,       \* the requests in the middleware pipeline: layer, trail, response
    received,   \* expvar total_requests_received
    sent,       \* expvar total_responses_sent
    byStatus,   \* expvar total_responses_sent_by_status: status -> count
    finished,   \* the requests that left the pipeline, in order: final status
    crashed,    \* the process died of a panic nobody recovered
    hreq,       \* the calls of registerUserHandler: position, captured err, response
    task,       \* the background task of each call of registerUserHandler
    wg,         \* app.wg, the counter of the WaitGroup
    srv,        \* serve: its signal goroutine, its caller, the listener
    olog        \* the calls of the handlers on given store outcomes, and their responses

movieVars == <<movies, nextId, mreq>>
userVars == <<users, nextUserId>>
callVars == <<snap, updLog>>
authVars == <<perms, tokens, now, issued, areq>>
rateVars == <<cfg, clock, clients, mu, rpc, sweep, rlog>>
pipeVars == <<preq, received, sent, byStatus, finished, crashed>>
bgVars == <<hreq, task, wg, srv>>
notRateVars == <<movieVars, userVars, callVars, authVars, pipeVars, bgVars, olog>>
vars == <<movies, nextId, mreq, users, nextUserId, snap, updLog,
          perms, tokens, now, issued, areq,
          cfg, clock, clients, mu, rpc, sweep, rlog,
          preq, received, sent, byStatus, finished, crashed,
          hreq, task, wg, srv, olog>>

\* What the movie handlers leave alone.
notMovieVars == <<users, nextUserId, snap, updLog, authVars, rateVars, pipeVars, bgVars, olog>>

(***************************************************************************)
(* Errors of the data layer and the statuses the handlers answer.          *)
(***************************************************************************)
ErrNil == "nil"
ErrRecordNotFound == "record not found"
ErrEditConflict == "edit conflict"
ErrDuplicateEmail == "duplicate email"
ErrStore == "store error"

(***************************************************************************)
(* data.Movie.  Title holds the title's length in bytes (the only thing    *)
(* the code reads of a title, besides storing it), Genres a sequence of    *)
(* strings; a nil Genres slice is the empty sequence (ValidateMovie        *)
(* rejects both, and the handlers store neither).                          *)
(***************************************************************************)
ZeroMovie ==
    [id |-> 0, created_at |-> 0, title |-> 0, year |-> 0, runtime |-> 0,
     genres |-> <<>>, version |-> 0]

\* A Scan that reads the year into Runtime and the runtime into Year.
RowToMovieSwapped(store, id) ==
    [id |-> id, created_at |-> store[id].created_at, title |-> store[id].title,
     year |-> store[id].runtime, runtime |-> store[id].year,
     genres |-> store[id].genres, version |-> store[id].version]

\* A row of the movies table as Scan reads it into a data.Movie.
RowToMovie(store, id) ==
    [id |-> id, created_at |-> store[id].created_at, title |-> store[id].title,
     year |-> store[id].year, runtime |-> store[id].runtime,
     genres |-> store[id].genres, version |-> store[id].version]

\* validator.Unique: as many distinct values as values.
Unique(values) ==
    Cardinality({values[i] : i \in DOMAIN values}) = Len(values)

\* A ValidateMovie without its checks of the genres.
ValidateMovieWithoutGenres(movie) ==
    /\ movie.title # 0
    /\ movie.title <= 500
    /\ movie.year # 0
    /\ movie.year >= 1888
    /\ movie.year <= CurrentYear
    /\ movie.runtime # 0
    /\ movie.runtime > 0

\* data.ValidateMovie: TRUE iff no check records a failure (v.Valid()).
ValidateMovie(movie) ==
    /\ movie.title # 0
    /\ movie.title <= 500
    /\ movie.year # 0
    /\ movie.year >= 1888
    /\ movie.year <= CurrentYear
    /\ movie.runtime # 0
    /\ movie.runtime > 0
    /\ Len(movie.genres) >= 1
    /\ Len(movie.genres) <= 5
    /\ Unique(movie.genres)

\* MovieModel.Insert: INSERT ... RETURNING id, created_at, version.  The id comes
\* from the sequence, the version from the column default 1.
MovieInsert(store, seq, movie, at) ==
    [err |-> ErrNil,
     store |-> store @@ (seq :> [created_at |-> at, title |-> movie.title,
                                 year |-> movie.year, runtime |-> movie.runtime,
                                 genres |-> movie.genres, version |-> 1]),
     movie |-> [movie EXCEPT !.id = seq, !.created_at = at, !.version = 1]]

\* MovieModel.Get: id < 1 answers not-found without a query; no row, not-found.
MovieGet(store, id) ==
    IF id < 1 THEN [err |-> ErrRecordNotFound, movie |-> ZeroMovie]
    ELSE IF id \notin DOMAIN store THEN [err |-> ErrRecordNotFound, movie |-> ZeroMovie]
    ELSE [err |-> ErrNil, movie |-> RowToMovie(store, id)]

\* An update that writes the caller's copy as a new row when no row matches.
MovieUpdateUpserts(store, movie) ==
    IF movie.id \in DOMAIN store /\ store[movie.id].version = movie.version
    THEN [err |-> ErrNil,
          store |-> [store EXCEPT ![movie.id] =
                        [@ EXCEPT !.title = movie.title, !.year = movie.year,
                                  !.runtime = movie.runtime, !.genres = movie.genres,
                                  !.version = @ + 1]],
          version |-> store[movie.id].version + 1]
    ELSE IF movie.id \in DOMAIN store
    THEN [err |-> ErrEditConflict, store |-> store, version |-> movie.version]
    ELSE [err |-> ErrNil,
          store |-> store @@ (movie.id :> [created_at |-> movie.created_at,
                                           title |-> movie.title, year |-> movie.year,
                                           runtime |-> movie.runtime,
                                           genres |-> movie.genres,
                                           version |-> movie.version + 1]),
          version |-> movie.version + 1]

\* An update that drops the version condition of the WHERE clause.
MovieUpdateNoVersionCheck(store, movie) ==
    IF movie.id \in DOMAIN store
    THEN [err |-> ErrNil,
          store |-> [store EXCEPT ![movie.id] =
                        [@ EXCEPT !.title = movie.title, !.year = movie.year,
                                  !.runtime = movie.runtime, !.genres = movie.genres,
                                  !.version = @ + 1]],
          version |-> store[movie.id].version + 1]
    ELSE [err |-> ErrEditConflict, store |-> store, version |-> movie.version]

\* An update that writes the caller's version back instead of incrementing the
\* stored one.
MovieUpdateNoIncrement(store, movie) ==
    IF movie.id \in DOMAIN store /\ store[movie.id].version = movie.version
    THEN [err |-> ErrNil,
          store |-> [store EXCEPT ![movie.id] =
                        [@ EXCEPT !.title = movie.title, !.year = movie.year,
                                  !.runtime = movie.runtime, !.genres = movie.genres,
                                  !.version = 1]],
          version |-> 1]
    ELSE [err |-> ErrEditConflict, store |-> store, version |-> movie.version]

\* MovieModel.Update: UPDATE ... SET ..., version = version + 1
\* WHERE id = $5 AND version = $6 RETURNING version.  No row: ErrEditConflict.
MovieUpdate(store, movie) ==
    IF movie.id \in DOMAIN store /\ store[movie.id].version = movie.version
    THEN [err |-> ErrNil,
          store |-> [store EXCEPT ![movie.id] =
                        [@ EXCEPT !.title = movie.title, !.year = movie.year,
                                  !.runtime = movie.runtime, !.genres = movie.genres,
                                  !.version = @ + 1]],
          version |-> store[movie.id].version + 1]
    ELSE [err |-> ErrEditConflict, store |-> store, version |-> movie.version]

\* MovieModel.Delete: id < 1 or no row affected answers not-found.
MovieDelete(store, id) ==
    IF id < 1 THEN [err |-> ErrRecordNotFound, store |-> store]
    ELSE IF id \notin DOMAIN store THEN [err |-> ErrRecordNotFound, store |-> store]
    ELSE [err |-> ErrNil, store |-> [i \in DOMAIN store \ {id} |-> store[i]]]

(***************************************************************************)
(* data.User and the users table.  ptr tells the AnonymousUser instance    *)
(* from every other User value: IsAnonymous compares pointers.             *)
(***************************************************************************)
ZeroUser ==
    [ptr |-> "new", id |-> 0, name |-> "", email |-> "", password_hash |-> "",
     activated |-> FALSE, version |-> 0]

AnonymousUser == [ZeroUser EXCEPT !.ptr = "AnonymousUser"]

\* User.IsAnonymous: u == AnonymousUser.
IsAnonymous(user) == user.ptr = "AnonymousUser"

RowToUser(store, id) ==
    [ptr |-> "new", id |-> id, name |-> store[id].name, email |-> store[id].email,
     password_hash |-> store[id].password_hash, activated |-> store[id].activated,
     version |-> store[id].version]

\* The rows another user holds under the same email (constraint users_email_key).
EmailTaken(store, email, except) ==
    \E i \in DOMAIN store \ {except} : store[i].email = email

\* An Insert into a users table without the unique constraint on email.
UserInsertNoConstraint(store, seq, user) ==
    [err |-> ErrNil,
     store |-> store @@ (seq :> [name |-> user.name, email |-> user.email,
                                 password_hash |-> user.password_hash,
                                 activated |-> user.activated, version |-> 1]),
     user |-> [user EXCEPT !.id = seq, !.version = 1]]

\* UserModel.Insert: INSERT ... RETURNING id, created_at, version.
UserInsert(store, seq, user) ==
    IF EmailTaken(store, user.email, 0)
    THEN [err |-> ErrDuplicateEmail, store |-> store, user |-> user]
    ELSE [err |-> ErrNil,
          store |-> store @@ (seq :> [name |-> user.name, email |-> user.email,
                                      password_hash |-> user.password_hash,
                                      activated |-> user.activated, version |-> 1]),
          user |-> [user EXCEPT !.id = seq, !.version = 1]]

\* UserModel.GetByEmail.
UserGetByEmail(store, email) ==
    IF \E i \in DOMAIN store : store[i].email = email
    THEN [err |-> ErrNil,
          user |-> RowToUser(store, CHOOSE i \in DOMAIN store : store[i].email = email)]
    ELSE [err |-> ErrRecordNotFound, user |-> ZeroUser]

\* An update of users that drops the version condition of the WHERE clause.
UserUpdateNoVersionCheck(store, user) ==
    IF user.id \in DOMAIN store
    THEN [err |-> ErrNil,
          store |-> [store EXCEPT ![user.id] =
                        [@ EXCEPT !.name = user.name, !.email = user.email,
                                  !.password_hash = user.password_hash,
                                  !.activated = user.activated, !.version = @ + 1]],
          version |-> store[user.id].version + 1]
    ELSE [err |-> ErrEditConflict, store |-> store, version |-> user.version]

\* UserModel.Update: UPDATE users SET ..., version = version + 1
\* WHERE id = $5 AND version = $6 RETURNING version.  A row that matches and would
\* take another user's email: ErrDuplicateEmail; no row: ErrEditConflict.
UserUpdate(store, user) ==
    IF user.id \in DOMAIN store /\ store[user.id].version = user.version
    THEN IF EmailTaken(store, user.email, user.id)
         THEN [err |-> ErrDuplicateEmail, store |-> store, version |-> user.version]
         ELSE [err |-> ErrNil,
               store |-> [store EXCEPT ![user.id] =
                             [@ EXCEPT !.name = user.name, !.email = user.email,
                                       !.password_hash = user.password_hash,
                                       !.activated = user.activated, !.version = @ + 1]],
               version |-> store[user.id].version + 1]
    ELSE [err |-> ErrEditConflict, store |-> store, version |-> user.version]

\* Two users, as earlier registrations and activations left them.
SeedUsers ==
    (1 :> [name |-> "ann", email |-> "ann@x.com", password_hash |-> "h1",
           activated |-> TRUE, version |-> 2])
    @@ (2 :> [name |-> "bob", email |-> "bob@x.com", password_hash |-> "h2",
              activated |-> TRUE, version |-> 2])

(***************************************************************************)
(* Permissions.                                                            *)
(***************************************************************************)
\* The codes of the permissions table.
PermissionCodes == {"movies:read", "movies:write"}

\* Permissions.Include: some entry of the slice equals the code.
Include(permissions, code) == \E c \in permissions : code = c

\* The tables GetAllForUser's query reads from (FROM permissions INNER JOIN
\* users_permissions ... INNER JOIN users) and the tables its ON and WHERE clauses
\* name: the first ON clause names users_permission.
GetAllForUserFrom == {"permissions", "users_permissions", "users"}
GetAllForUserNamed == {"users_permission", "permissions", "users_permissions", "users"}

\* The store executes a statement only when every table its clauses name is one it
\* reads from; otherwise the call returns the store's error.
StatementRuns(from, named) == named \subseteq from

\* PermissionModel.GetAllForUser: the codes of the user's rows, or the error of
\* QueryContext.
GetAllForUser(table, userID) ==
    IF ~StatementRuns(GetAllForUserFrom, GetAllForUserNamed)
    THEN [err |-> ErrStore, permissions |-> {}]
    ELSE [err |-> ErrNil,
          permissions |-> IF userID \in DOMAIN table THEN table[userID] ELSE {}]

\* PermissionModel.AddForUser: one row per code that the permissions table holds.
AddForUser(table, userID, codes) ==
    IF userID \in DOMAIN table
    THEN [table EXCEPT ![userID] = @ \cup (codes \cap PermissionCodes)]
    ELSE table @@ (userID :> (codes \cap PermissionCodes))

\* ann was granted movies:write in the store; bob holds what registration grants.
SeedPerms == (1 :> {"movies:read", "movies:write"}) @@ (2 :> {"movies:read"})

(***************************************************************************)
(* Tokens.  A plaintext is a string of len characters; n tells plaintexts  *)
(* of one length apart.                                                    *)
(***************************************************************************)
ScopeActivation == "activation"
ScopeAuthentication == "authentication"
Scopes == {ScopeActivation, ScopeAuthentication}

\* The bytes generateToken draws, and the length ValidateTokenPlaintext asks for.
RandomBytes == 16
TokenLen == 26
\* The time-to-live registerUserHandler gives an activation token: 3 * 24 hours.
ActivationTTL == 3
TokenTTL == 1

\* base32 without padding: 5 bits a character, the last one partly filled.
Base32Len(bytes) == (bytes * 8 + 4) \div 5

\* sha256.Sum256 of a plaintext: distinct plaintexts have distinct hashes.
Sha256(plaintext) == <<"sha256", plaintext.n, plaintext.len>>

\* generateToken, with n the random bytes drawn.
GenerateToken(userID, ttl, scope, at, n) ==
    LET plaintext == [n |-> n, len |-> Base32Len(RandomBytes)]
    IN  [plaintext |-> plaintext, hash |-> Sha256(plaintext), user_id |-> userID,
         expiry |-> at + ttl, scope |-> scope]

\* data.ValidateTokenPlaintext: TRUE iff no check records a failure.
ValidateTokenPlaintext(plaintext) ==
    /\ plaintext.len # 0
    /\ plaintext.len = TokenLen

\* TokenModel.Insert.
TokenInsert(table, token) ==
    table \cup {[hash |-> token.hash, user_id |-> token.user_id,
                 expiry |-> token.expiry, scope |-> token.scope]}

\* TokenModel.New: generateToken, then Insert.
TokenNew(table, userID, ttl, scope, at, n) ==
    LET token == GenerateToken(userID, ttl, scope, at, n)
    IN  [token |-> token, table |-> TokenInsert(table, token)]

\* A DeleteAllForUser that forgets the scope.
TokenDeleteAllScopes(table, scope, userID) ==
    {t \in table : ~(t.user_id = userID)}

\* TokenModel.DeleteAllForUser: DELETE FROM tokens WHERE scope = $1 AND user_id = $2.
TokenDeleteAllForUser(table, scope, userID) ==
    {t \in table : ~(t.scope = scope /\ t.user_id = userID)}

\* A GetForToken that reports an expired token with an error of its own.
GetForTokenReportsExpiry(tokenTable, userTable, tokenScope, tokenPlaintext, at) ==
    LET held == {t \in tokenTable : /\ t.hash = Sha256(tokenPlaintext)
                                    /\ t.scope = tokenScope
                                    /\ t.user_id \in DOMAIN userTable}
        rows == {t \in held : t.expiry > at}
    IN  IF held = {} THEN [err |-> ErrRecordNotFound, user |-> ZeroUser]
        ELSE IF rows = {} THEN [err |-> "token expired", user |-> ZeroUser]
        ELSE [err |-> ErrNil, user |-> RowToUser(userTable, (CHOOSE t \in rows : TRUE).user_id)]

\* A GetForToken that forgets the scope.
GetForTokenAnyScope(tokenTable, userTable, tokenScope, tokenPlaintext, at) ==
    LET rows == {t \in tokenTable : /\ t.hash = Sha256(tokenPlaintext)
                                    /\ t.expiry > at
                                    /\ t.user_id \in DOMAIN userTable}
    IN  IF rows = {} THEN [err |-> ErrRecordNotFound, user |-> ZeroUser]
        ELSE [err |-> ErrNil, user |-> RowToUser(userTable, (CHOOSE t \in rows : TRUE).user_id)]

\* A GetForToken that still accepts a token at its expiry.
GetForTokenAtExpiry(tokenTable, userTable, tokenScope, tokenPlaintext, at) ==
    LET rows == {t \in tokenTable : /\ t.hash = Sha256(tokenPlaintext)
                                    /\ t.scope = tokenScope
                                    /\ t.expiry >= at
                                    /\ t.user_id \in DOMAIN userTable}
    IN  IF rows = {} THEN [err |-> ErrRecordNotFound, user |-> ZeroUser]
        ELSE [err |-> ErrNil, user |-> RowToUser(userTable, (CHOOSE t \in rows : TRUE).user_id)]

\* UserModel.GetForToken: users INNER JOIN tokens WHERE tokens.hash = $1 AND
\* tokens.scope = $2 AND tokens.expiry > $3, with $3 the time of the call.
GetForToken(tokenTable, userTable, tokenScope, tokenPlaintext, at) ==
    LET rows == {t \in tokenTable : /\ t.hash = Sha256(tokenPlaintext)
                                    /\ t.scope = tokenScope
                                    /\ t.expiry > at
                                    /\ t.user_id \in DOMAIN userTable}
    IN  IF rows = {} THEN [err |-> ErrRecordNotFound, user |-> ZeroUser]
        ELSE [err |-> ErrNil, user |-> RowToUser(userTable, (CHOOSE t \in rows : TRUE).user_id)]

(***************************************************************************)
(* Request bodies.  A PATCH body names each field or leaves it out; ok is  *)
(* FALSE for a body readJSON rejects.                                      *)
(***************************************************************************)
Some(v) == [has |-> TRUE, val |-> v]
None == [has |-> FALSE, val |-> 0]
NoGenres == [has |-> FALSE, val |-> <<>>]

PatchBody(ok, t, y, r, g) == [ok |-> ok, title |-> t, year |-> y, runtime |-> r, genres |-> g]

PatchBodies ==
    { PatchBody(FALSE, None, None, None, NoGenres),
      PatchBody(TRUE, None, None, None, NoGenres),
      PatchBody(TRUE, None, Some(2020), None, NoGenres),
      PatchBody(TRUE, Some(7), None, None, NoGenres),
      PatchBody(TRUE, Some(0), None, None, NoGenres),
      PatchBody(TRUE, None, None, None, Some(<<>>)),
      PatchBody(TRUE, None, None, Some(-5), Some(<<"drama", "drama">>)),
      PatchBody(TRUE, Some(9), Some(1999), Some(120), Some(<<"scifi", "drama">>)) }

CreateBody(ok, t, y, r, g) == [ok |-> ok, title |-> t, year |-> y, runtime |-> r, genres |-> g]

CreateBodies ==
    { CreateBody(FALSE, 0, 0, 0, <<>>),
      CreateBody(TRUE, 5, 1979, 117, <<"horror">>),
      CreateBody(TRUE, 5, 0, 117, <<"horror">>) }

\* The ids a request path can carry; readIDParam rejects those below 1.
PathIds == 0 .. 2

\* A copy that leaves the genres of the body out.
ApplyPatchWithoutGenres(movie, body) ==
    [movie EXCEPT !.title = IF body.title.has THEN body.title.val ELSE @,
                  !.year = IF body.year.has THEN body.year.val ELSE @,
                  !.runtime = IF body.runtime.has THEN body.runtime.val ELSE @]

\* updateMovieHandler, the copy of the body's fields onto the loaded record:
\* only the fields present in the body are written.
ApplyPatch(movie, body) ==
    [movie EXCEPT !.title = IF body.title.has THEN body.title.val ELSE @,
                  !.year = IF body.year.has THEN body.year.val ELSE @,
                  !.runtime = IF body.runtime.has THEN body.runtime.val ELSE @,
                  !.genres = IF body.genres.has THEN body.genres.val ELSE @]

(***************************************************************************)
(* The movie handlers.  A request is idle until it arrives, loaded between *)
(* updateMovieHandler's Get and its Update, and done once answered.  The   *)
(* last four fields record what the request did to the store: the version  *)
(* of the row its Get read (or its Delete removed), whether it called      *)
(* Update, the row its store call left behind and whether that call        *)
(* changed the table.                                                      *)
(***************************************************************************)
Reqs == 1 .. MaxReq

IdleReq ==
    [pc |-> "idle", route |-> "none", id |-> 0, movie |-> ZeroMovie, status |-> 0,
     seen |-> 0, updated |-> FALSE, post |-> ZeroMovie, changed |-> FALSE]

Answer(q, status) == [q EXCEPT !.pc = "done", !.status = status]

\* createMovieHandler: readJSON, ValidateMovie, Insert, 201.
CreateMovie(r, body) ==
    /\ mreq[r].pc = "idle"
    /\ UNCHANGED notMovieVars
    /\ LET q == [mreq[r] EXCEPT !.route = "POST"]
           movie == [ZeroMovie EXCEPT !.title = body.title, !.year = body.year,
                                      !.runtime = body.runtime, !.genres = body.genres]
           ins == MovieInsert(movies, nextId, movie, now)
       IN  IF ~body.ok
           THEN /\ mreq' = [mreq EXCEPT ![r] = Answer(q, 400)]
                /\ UNCHANGED <<movies, nextId>>
           ELSE IF ~ValidateMovie(movie)
           THEN /\ mreq' = [mreq EXCEPT ![r] = Answer(q, 422)]
                /\ UNCHANGED <<movies, nextId>>
           ELSE /\ movies' = ins.store
                /\ nextId' = nextId + 1
                /\ mreq' = [mreq EXCEPT ![r] =
                              Answer([q EXCEPT !.id = ins.movie.id, !.movie = ins.movie,
                                               !.post = ins.movie, !.changed = TRUE], 201)]

\* showMovieHandler: readIDParam, Get, 200 or 404.
ShowMovie(r, id) ==
    /\ mreq[r].pc = "idle"
    /\ UNCHANGED notMovieVars
    /\ LET q == [mreq[r] EXCEPT !.route = "GET", !.id = id]
           got == MovieGet(movies, id)
       IN  mreq' = [mreq EXCEPT ![r] =
                      IF id < 1 \/ got.err = ErrRecordNotFound
                      THEN Answer(q, 404)
                      ELSE Answer([q EXCEPT !.movie = got.movie,
                                            !.seen = got.movie.version], 200)]
    /\ UNCHANGED <<movies, nextId>>

\* updateMovieHandler up to its Get: readIDParam, then Get; 404 or the record.
PatchGet(r, id) ==
    /\ mreq[r].pc = "idle"
    /\ UNCHANGED notMovieVars
    /\ LET q == [mreq[r] EXCEPT !.route = "PATCH", !.id = id]
           got == MovieGet(movies, id)
       IN  mreq' = [mreq EXCEPT ![r] =
                      IF id < 1 \/ got.err = ErrRecordNotFound
                      THEN Answer(q, 404)
                      ELSE [q EXCEPT !.pc = "loaded", !.movie = got.movie,
                                     !.seen = got.movie.version]]
    /\ UNCHANGED <<movies, nextId>>

\* updateMovieHandler from readJSON on: 400, 422, or Update and 409 or 200.
PatchUpdate(r, body) ==
    /\ mreq[r].pc = "loaded"
    /\ UNCHANGED notMovieVars
    /\ LET q == mreq[r]
           movie == ApplyPatch(q.movie, body)
           upd == MovieUpdate(movies, movie)
       IN  IF ~body.ok
           THEN /\ mreq' = [mreq EXCEPT ![r] = Answer(q, 400)]
                /\ UNCHANGED <<movies, nextId>>
           ELSE IF ~ValidateMovie(movie)
           THEN /\ mreq' = [mreq EXCEPT ![r] = Answer([q EXCEPT !.movie = movie], 422)]
                /\ UNCHANGED <<movies, nextId>>
           ELSE /\ movies' = upd.store
                /\ UNCHANGED nextId
                /\ mreq' = [mreq EXCEPT ![r] =
                              Answer([q EXCEPT !.movie = [movie EXCEPT !.version = upd.version],
                                               !.updated = TRUE,
                                               !.post = IF q.id \in DOMAIN upd.store
                                                        THEN RowToMovie(upd.store, q.id)
                                                        ELSE ZeroMovie,
                                               !.changed = (upd.store # movies)],
                                     IF upd.err = ErrEditConflict THEN 409 ELSE 200)]

\* deleteMovieHandler: readIDParam, Delete, 200 or 404.
DeleteMovie(r, id) ==
    /\ mreq[r].pc = "idle"
    /\ UNCHANGED notMovieVars
    /\ LET q == [mreq[r] EXCEPT !.route = "DELETE", !.id = id]
           del == MovieDelete(movies, id)
       IN  /\ movies' = del.store
           /\ mreq' = [mreq EXCEPT ![r] =
                         IF id < 1 \/ del.err = ErrRecordNotFound
                         THEN Answer(q, 404)
                         ELSE Answer([q EXCEPT !.changed = TRUE,
                                               !.seen = movies[id].version], 200)]
    /\ UNCHANGED nextId

\* One movie, as an earlier POST left it.
SeedMovies ==
    (1 :> [created_at |-> 0, title |-> 5, year |-> 1979, runtime |-> 117,
           genres |-> <<"horror">>, version |-> 1])

(***************************************************************************)
(* The middleware chain of routes(), from authenticate inwards.  A request *)
(* is new until authenticate has decided it, routed once the router has    *)
(* it, and done when it is answered; a done request leaves its slot to the *)
(* next one.                                                               *)
(***************************************************************************)
AReqs == 1 .. MaxAuthReq

MovieRoutes ==
    {"GET /v1/movies", "POST /v1/movies", "GET /v1/movies/:id",
     "PATCH /v1/movies/:id", "DELETE /v1/movies/:id"}

\* The permission code routes() wraps each movie route with.
RouteCode(route) ==
    IF route \in {"GET /v1/movies", "GET /v1/movies/:id"}
    THEN "movies:read"
    ELSE "movies:write"

\* The plaintexts a client presents: those TokenModel.New can return, one a
\* character short and the empty one.
NoPlaintext == [n |-> 0, len |-> 0]
Plains ==
    {[n |-> k, len |-> TokenLen] : k \in 1 .. MaxTokens}
        \cup {[n |-> 1, len |-> TokenLen - 1], NoPlaintext}

\* An Authorization header, as strings.Split(header, " ") cuts it; <<>> is the
\* header left out.
Headers ==
    {<<>>, <<"Bearer">>, <<"Basic", [n |-> 1, len |-> TokenLen]>>,
     <<"Bearer", [n |-> 1, len |-> TokenLen], "x">>}
        \cup {<<"Bearer", p>> : p \in Plains}

NewReq ==
    [pc |-> "new", route |-> "none", header |-> <<>>, user |-> ZeroUser,
     plaintext |-> NoPlaintext, status |-> 0, message |-> "",
     lookup |-> FALSE, gated |-> FALSE, loaded |-> FALSE, entered |-> FALSE,
     ctx |-> <<>>]

\* A contextSetUser that returns the request as it was, no value added.
ContextSetUserDropsValue(q, user) == q

\* contextSetUser: the request with user under userContextKey in its context
\* (ctx is the value under that key, <<>> when there is none).
ContextSetUser(q, user) == [q EXCEPT !.ctx = <<user>>]

\* contextGetUser: the value under userContextKey; it panics when there is none.
ContextGetUser(q) ==
    IF q.ctx = <<>>
    THEN [panic |-> TRUE, user |-> ZeroUser]
    ELSE [panic |-> FALSE, user |-> q.ctx[1]]

Respond(q, status, message) ==
    [q EXCEPT !.pc = "done", !.status = status, !.message = message]

\* An authenticate that skips the length check of the token.
AuthenticateNoLengthCheck(header, tokenTable, userTable, at) ==
    IF Len(header) = 0
    THEN [status |-> 0, message |-> "", user |-> AnonymousUser, lookup |-> FALSE,
          challenge |-> FALSE]
    ELSE IF Len(header) # 2 \/ header[1] # "Bearer"
    THEN [status |-> 401, message |-> "invalid authentication credentials",
          user |-> ZeroUser, lookup |-> FALSE,
          challenge |-> FALSE]
    ELSE LET got == GetForToken(tokenTable, userTable, ScopeAuthentication, header[2], at)
         IN  IF got.err = ErrRecordNotFound
             THEN [status |-> 401, message |-> "invalid authentication credentials",
                   user |-> ZeroUser, lookup |-> TRUE,
                   challenge |-> FALSE]
             ELSE [status |-> 0, message |-> "", user |-> got.user, lookup |-> TRUE,
                   challenge |-> FALSE]

\* authenticate: what it answers, or status 0 and the user it puts in the request
\* context before it calls the next handler; lookup tells whether it queried the
\* store, challenge whether the response carries WWW-Authenticate: Bearer.
AuthenticateDecision(header, tokenTable, userTable, at) ==
    IF Len(header) = 0
    THEN [status |-> 0, message |-> "", user |-> AnonymousUser, lookup |-> FALSE,
          challenge |-> FALSE]
    ELSE IF Len(header) # 2 \/ header[1] # "Bearer"
    THEN [status |-> 401, message |-> "invalid authentication credentials",
          user |-> ZeroUser, lookup |-> FALSE,
          challenge |-> FALSE]
    ELSE IF ~ValidateTokenPlaintext(header[2])
    THEN [status |-> 401, message |-> "invalid or missing authentication token",
          user |-> ZeroUser, lookup |-> FALSE,
          challenge |-> TRUE]
    ELSE LET got == GetForToken(tokenTable, userTable, ScopeAuthentication, header[2], at)
         IN  IF got.err = ErrRecordNotFound
             THEN [status |-> 401, message |-> "invalid authentication credentials",
                   user |-> ZeroUser, lookup |-> TRUE,
                   challenge |-> FALSE]
             ELSE IF got.err # ErrNil
             THEN [status |-> 500, message |-> "the server encountered a problem",
                   user |-> ZeroUser, lookup |-> TRUE,
                   challenge |-> FALSE]
             ELSE [status |-> 0, message |-> "", user |-> got.user, lookup |-> TRUE,
                   challenge |-> FALSE]

\* requireAuthenticatedUser around an inner decision: 401 for the anonymous user.
RequireAuthenticatedUser(user, inner) ==
    IF IsAnonymous(user)
    THEN [status |-> 401, message |-> "you must be authenticated to access this resource",
          loaded |-> FALSE]
    ELSE inner

\* requireActivatedUser: requireAuthenticatedUser around the activation check.
RequireActivatedUser(user, inner) ==
    RequireAuthenticatedUser(user,
        IF ~user.activated
        THEN [status |-> 403,
              message |-> "your user account must be activated to access this resource",
              loaded |-> FALSE]
        ELSE inner)

\* A requirePermission that wraps the handler in requireActivatedUser only.
RequirePermissionNoCheck(code, user, table) ==
    RequireActivatedUser(user, [status |-> 0, message |-> "", loaded |-> FALSE])

\* requirePermission: requireActivatedUser around the load of the user's permissions
\* and the check of the code; status 0 when it calls the handler.
RequirePermission(code, user, table) ==
    RequireActivatedUser(user,
        LET got == GetAllForUser(table, user.id)
        IN  IF got.err # ErrNil
            THEN [status |-> 500, message |-> "the server encountered a problem",
                  loaded |-> TRUE]
            ELSE IF ~Include(got.permissions, code)
            THEN [status |-> 403,
                  message |-> "your user account doesn't have the necessary permissions",
                  loaded |-> TRUE]
            ELSE [status |-> 0, message |-> "", loaded |-> TRUE])

\* What the handler of a movie route does to the movies table once the gate calls
\* it, for one request on movie 1 (the POST with the body of a new movie).
MovieHandler(route, store, seq, at) ==
    CASE route = "POST /v1/movies" ->
            [store |-> MovieInsert(store, seq,
                          [ZeroMovie EXCEPT !.title = 5, !.year = 1979, !.runtime = 117,
                                            !.genres = <<"horror">>], at).store,
             seq |-> seq + 1, status |-> 201]
      [] route = "PATCH /v1/movies/:id" ->
            IF MovieGet(store, 1).err # ErrNil
            THEN [store |-> store, seq |-> seq, status |-> 404]
            ELSE LET upd == MovieUpdate(store, [MovieGet(store, 1).movie EXCEPT !.title = 7])
                 IN  [store |-> upd.store, seq |-> seq,
                      status |-> IF upd.err = ErrNil THEN 200 ELSE 409]
      [] route = "DELETE /v1/movies/:id" ->
            [store |-> MovieDelete(store, 1).store, seq |-> seq,
             status |-> IF MovieDelete(store, 1).err = ErrNil THEN 200 ELSE 404]
      [] route = "GET /v1/movies/:id" ->
            [store |-> store, seq |-> seq,
             status |-> IF MovieGet(store, 1).err = ErrNil THEN 200 ELSE 404]
      [] OTHER -> [store |-> store, seq |-> seq, status |-> 200]

\* A request arrives and authenticate decides it; the router is its next handler.
Authenticate(r, header) ==
    /\ areq[r].pc = "new"
    /\ LET d == AuthenticateDecision(header, tokens, users, now)
           q == [areq[r] EXCEPT !.header = header, !.lookup = d.lookup]
       IN  areq' = [areq EXCEPT ![r] =
                      IF d.status = 0
                      THEN ContextSetUser([q EXCEPT !.pc = "routed", !.user = d.user],
                                          d.user)
                      ELSE Respond(q, d.status, d.message)]
    /\ UNCHANGED <<movieVars, userVars, callVars, rateVars, pipeVars, bgVars, perms, tokens, now, issued, olog>>

\* A movie route: requirePermission, whose gates read the user with
\* contextGetUser (a panic is answered 500 by recoverPanic), then the handler.
MovieRoute(r, route) ==
    /\ areq[r].pc = "routed"
    /\ route \in MovieRoutes
    /\ LET q == [areq[r] EXCEPT !.route = route, !.gated = TRUE]
           got == ContextGetUser(q)
           g == RequirePermission(RouteCode(q.route), got.user, perms)
           h == MovieHandler(q.route, movies, nextId, now)
       IN  IF got.panic
           THEN /\ areq' = [areq EXCEPT ![r] =
                              Respond(q, 500, "missing user value in request context")]
                /\ UNCHANGED <<movies, nextId>>
           ELSE IF g.status # 0
           THEN /\ areq' = [areq EXCEPT ![r] =
                              Respond([q EXCEPT !.loaded = g.loaded], g.status, g.message)]
                /\ UNCHANGED <<movies, nextId>>
           ELSE /\ areq' = [areq EXCEPT ![r] =
                              Respond([q EXCEPT !.loaded = g.loaded, !.entered = TRUE],
                                      h.status, "")]
                /\ movies' = h.store
                /\ nextId' = h.seq
    /\ UNCHANGED <<mreq, userVars, callVars, rateVars, pipeVars, bgVars, perms, tokens, now, issued, olog>>

\* The random bytes no token was generated from yet.
FreshBytes == {k \in 1 .. MaxTokens : \A t \in issued : t.plaintext.n # k}

\* registerUserHandler, for a body that passes ValidateUser: Insert (422 for an
\* email already stored), AddForUser movies:read, Tokens.New with the activation
\* scope, 202.
RegisterUser(r, email) ==
    /\ areq[r].pc = "routed"
    /\ LET q == [areq[r] EXCEPT !.route = "POST /v1/users"]
           user == [ZeroUser EXCEPT !.name = "cat", !.email = email, !.password_hash = "h3"]
           ins == UserInsert(users, nextUserId, user)
       IN  IF ins.err = ErrDuplicateEmail
           THEN /\ areq' = [areq EXCEPT ![r] = Respond(q, 422, "email")]
                /\ UNCHANGED <<users, nextUserId, perms, tokens, issued>>
           ELSE /\ nextUserId <= MaxUsers
                /\ \E n \in FreshBytes :
                     LET new == TokenNew(tokens, ins.user.id, ActivationTTL, ScopeActivation, now, n)
                     IN  /\ tokens' = new.table
                         /\ issued' = issued \cup
                               {[plaintext |-> new.token.plaintext, user |-> ins.user.id,
                                 scope |-> ScopeActivation, expiry |-> now + ActivationTTL,
                                 revoked |-> FALSE]}
                /\ users' = ins.store
                /\ nextUserId' = nextUserId + 1
                /\ perms' = AddForUser(perms, ins.user.id, {"movies:read"})
                /\ areq' = [areq EXCEPT ![r] = Respond(q, 202, "")]
    /\ UNCHANGED <<movieVars, callVars, rateVars, pipeVars, bgVars, now, olog>>

\* activateUserHandler up to GetForToken: 422 for a token that is not 26 bytes or
\* that no unexpired activation token matches.
ActivateLookup(r, plaintext) ==
    /\ areq[r].pc = "routed"
    /\ LET q == [areq[r] EXCEPT !.route = "PUT /v1/users/activated", !.plaintext = plaintext]
           got == GetForToken(tokens, users, ScopeActivation, plaintext, now)
       IN  areq' = [areq EXCEPT ![r] =
                      IF ~ValidateTokenPlaintext(plaintext)
                      THEN Respond(q, 422, "token")
                      ELSE IF got.err = ErrRecordNotFound
                      THEN Respond(q, 422, "token")
                      ELSE [q EXCEPT !.pc = "activating", !.user = got.user]]
    /\ UNCHANGED <<movieVars, userVars, callVars, rateVars, pipeVars, bgVars, perms, tokens, now, issued, olog>>

\* activateUserHandler: user.Activated = true, Users.Update, 409 on a conflict.
ActivateUpdate(r) ==
    /\ areq[r].pc = "activating"
    /\ LET q == areq[r]
           user == [q.user EXCEPT !.activated = TRUE]
           upd == UserUpdate(users, user)
       IN  /\ users' = upd.store
           /\ areq' = [areq EXCEPT ![r] =
                         IF upd.err = ErrEditConflict
                         THEN Respond(q, 409, "edit conflict")
                         ELSE IF upd.err # ErrNil
                         THEN Respond(q, 500, "the server encountered a problem")
                         ELSE [q EXCEPT !.pc = "revoking",
                                        !.user = [user EXCEPT !.version = upd.version]]]
    /\ UNCHANGED <<movieVars, nextUserId, callVars, rateVars, pipeVars, bgVars, perms, tokens, now, issued, olog>>

\* activateUserHandler: Tokens.DeleteAllForUser with the activation scope, 200.
ActivateDelete(r) ==
    /\ areq[r].pc = "revoking"
    /\ tokens' = TokenDeleteAllForUser(tokens, ScopeActivation, areq[r].user.id)
    /\ issued' = {[t EXCEPT !.revoked = @ \/ (t.scope = ScopeActivation
                                               /\ t.user = areq[r].user.id)] : t \in issued}
    /\ areq' = [areq EXCEPT ![r] = Respond(areq[r], 200, "")]
    /\ UNCHANGED <<movieVars, userVars, callVars, rateVars, pipeVars, bgVars, perms, now, olog>>

\* A token endpoint calls TokenModel.New for a user, with a scope and a
\* time-to-live.
TokensNew(userID, ttl, scope) ==
    /\ userID \in DOMAIN users
    /\ \E n \in FreshBytes :
          LET new == TokenNew(tokens, userID, ttl, scope, now, n)
          IN  /\ tokens' = new.table
              /\ issued' = issued \cup
                    {[plaintext |-> new.token.plaintext, user |-> userID, scope |-> scope,
                      expiry |-> now + ttl, revoked |-> FALSE]}
    /\ UNCHANGED <<movieVars, userVars, callVars, rateVars, pipeVars, bgVars, perms, now, areq, olog>>

\* The response is written; the next request takes the slot.
Finish(r) ==
    /\ areq[r].pc = "done"
    /\ areq' = [areq EXCEPT ![r] = NewReq]
    /\ UNCHANGED <<movieVars, userVars, callVars, rateVars, pipeVars, bgVars, perms, tokens, now, issued, olog>>

\* A day passes.
Tick ==
    /\ now < MaxNow
    /\ now' = now + 1
    /\ UNCHANGED <<movieVars, userVars, callVars, rateVars, pipeVars, bgVars, perms, tokens, issued, areq, olog>>

(***************************************************************************)
(* rateLimit: one token bucket per client IP in a map guarded by a mutex,  *)
(* and a goroutine that purges the clients not seen for three minutes.     *)
(* Time is counted in minutes.  A bucket holds its tokens as credit, in    *)
(* ticks: a token costs cfg.period ticks, a full bucket holds              *)
(* cfg.burst * cfg.period.                                                 *)
(***************************************************************************)
SweepPeriod == 1
IdleLimit == 3

IPs == {"10.0.0.1", "10.0.0.2"}
Goroutines == 1 .. MaxGo
Free == 0
Sweeper == 0 - 1

\* The limiter settings a run is started with: -limiter-enabled, -limiter-burst and
\* -limiter-rps, the rate as the minutes one token takes.
Configs ==
    {[enabled |-> e, burst |-> b, period |-> p] :
        e \in BOOLEAN, b \in 1 .. MaxBurst, p \in {2, 5}}

\* The settings of the runs that start from Init: the limiter enabled, a burst of
\* one, a token every two minutes.
StartConfig == [enabled |-> TRUE, burst |-> 1, period |-> 2]

Min(a, b) == IF a < b THEN a ELSE b

\* rate.NewLimiter: a bucket that starts full.
NewLimiter(config, at) == [credit |-> config.burst * config.period, last |-> at]

\* Limiter.Allow at a time: the credit earned since the last token was taken, up to
\* the full bucket, and one token taken of it if it holds one.
Allow(config, limiter, at) ==
    LET credit == Min(config.burst * config.period, limiter.credit + (at - limiter.last))
    IN  IF credit >= config.period
        THEN [ok |-> TRUE, limiter |-> [credit |-> credit - config.period, last |-> at]]
        ELSE [ok |-> FALSE, limiter |-> limiter]

\* No request of a client decided yet.
NoDecisions == [first |-> 0, decided |-> <<>>]

IdleGo == [pc |-> "idle", ip |-> "none", ok |-> FALSE]

\* The requests of an ip that arrived: those decided and those on their way to
\* Allow.
Arrived(ip) ==
    Len(rlog[ip].decided) + Cardinality({g \in Goroutines :
                                    rpc[g].ip = ip /\ rpc[g].pc \in {"lock", "lookup", "allow"}})

\* A request of a client arrives; with the limiter disabled it goes on to the next
\* handler at once.
Arrive(g, ip) ==
    /\ rpc[g].pc = "idle"
    /\ Arrived(ip) < cfg.burst + 1
    /\ Arrived("10.0.0.1") + Arrived("10.0.0.2") < MaxArrivals
    /\ rpc' = [rpc EXCEPT ![g] = IF cfg.enabled
                                  THEN [pc |-> "lock", ip |-> ip, ok |-> FALSE]
                                  ELSE [IdleGo EXCEPT !.pc = "next"]]
    /\ UNCHANGED <<notRateVars, cfg, clock, clients, mu, sweep, rlog>>

\* mu.Lock() of a request.
Lock(g) ==
    /\ rpc[g].pc = "lock"
    /\ mu = Free
    /\ mu' = g
    /\ rpc' = [rpc EXCEPT ![g].pc = "lookup"]
    /\ UNCHANGED <<notRateVars, cfg, clock, clients, sweep, rlog>>

\* The lookup of the ip in the map, and the insert of a new client when it is not
\* there.
Lookup(g) ==
    /\ rpc[g].pc = "lookup"
    /\ clients' = IF rpc[g].ip \in DOMAIN clients
                  THEN clients
                  ELSE [i \in DOMAIN clients \cup {rpc[g].ip} |->
                          IF i = rpc[g].ip
                          THEN [limiter |-> NewLimiter(cfg, clock), lastSeen |-> clock]
                          ELSE clients[i]]
    /\ rpc' = [rpc EXCEPT ![g].pc = "allow"]
    /\ UNCHANGED <<notRateVars, cfg, clock, mu, sweep, rlog>>

\* clients[ip].lastSeen = time.Now() and clients[ip].limiter.Allow().
SeenAllow(g) ==
    /\ rpc[g].pc = "allow"
    /\ LET ip == rpc[g].ip
           got == Allow(cfg, clients[ip].limiter, clock)
       IN  /\ clients' = [clients EXCEPT ![ip] = [limiter |-> got.limiter, lastSeen |-> clock]]
           /\ rpc' = [rpc EXCEPT ![g].pc = "unlock", ![g].ok = got.ok]
           /\ rlog' = [rlog EXCEPT ![ip] =
                          LET first == IF @.decided = <<>> THEN clock ELSE @.first
                          IN  [first |-> first,
                               decided |-> Append(@.decided,
                                              [early |-> clock - first < cfg.period,
                                               ok |-> got.ok])]]
    /\ UNCHANGED <<notRateVars, cfg, clock, mu, sweep>>

\* An Unlock that leaves the mutex locked when Allow refused.
UnlockAdmittedOnly(g) ==
    /\ rpc[g].pc = "unlock"
    /\ mu' = IF rpc[g].ok THEN Free ELSE mu
    /\ rpc' = [rpc EXCEPT ![g] = [IdleGo EXCEPT !.pc = IF rpc[g].ok THEN "next" ELSE "respond429"]]
    /\ UNCHANGED <<notRateVars, cfg, clock, clients, sweep, rlog>>

\* mu.Unlock(), on the path to rateLimitExceededResponse and on the path to
\* next.ServeHTTP.
Unlock(g) ==
    /\ rpc[g].pc = "unlock"
    /\ mu' = Free
    /\ rpc' = [rpc EXCEPT ![g] = [IdleGo EXCEPT !.pc = IF rpc[g].ok THEN "next" ELSE "respond429"]]
    /\ UNCHANGED <<notRateVars, cfg, clock, clients, sweep, rlog>>

\* The 429 is written, or the next handler returns.
Served(g) ==
    /\ rpc[g].pc \in {"next", "respond429"}
    /\ rpc' = [rpc EXCEPT ![g] = IdleGo]
    /\ UNCHANGED <<notRateVars, cfg, clock, clients, mu, sweep, rlog>>

\* time.Sleep(time.Minute) of the sweep is over.
SweepWake ==
    /\ sweep.pc = "sleep"
    /\ clock >= sweep.wake
    /\ sweep' = [sweep EXCEPT !.pc = "lock"]
    /\ UNCHANGED <<notRateVars, cfg, clock, clients, mu, rpc, rlog>>

\* mu.Lock() of the sweep.
SweepLock ==
    /\ sweep.pc = "lock"
    /\ mu = Free
    /\ mu' = Sweeper
    /\ sweep' = [sweep EXCEPT !.pc = "scan"]
    /\ UNCHANGED <<notRateVars, cfg, clock, clients, rpc, rlog>>

\* A scan that also deletes the clients last seen exactly three minutes ago.
SweepScanAtLimit ==
    /\ sweep.pc = "scan"
    /\ clients' = [i \in {j \in DOMAIN clients : ~(clock - clients[j].lastSeen >= IdleLimit)}
                     |-> clients[i]]
    /\ sweep' = [sweep EXCEPT !.pc = "unlock"]
    /\ UNCHANGED <<notRateVars, cfg, clock, mu, rpc, rlog>>

\* The loop over the map: delete the clients last seen more than three minutes ago.
SweepScan ==
    /\ sweep.pc = "scan"
    /\ clients' = [i \in {j \in DOMAIN clients : ~(clock - clients[j].lastSeen > IdleLimit)}
                     |-> clients[i]]
    /\ sweep' = [sweep EXCEPT !.pc = "unlock"]
    /\ UNCHANGED <<notRateVars, cfg, clock, mu, rpc, rlog>>

\* mu.Unlock() of the sweep, and its next sleep.
SweepUnlock ==
    /\ sweep.pc = "unlock"
    /\ mu' = Free
    /\ sweep' = [pc |-> "sleep", wake |-> clock + SweepPeriod]
    /\ UNCHANGED <<notRateVars, cfg, clock, clients, rpc, rlog>>

\* A minute passes.
Minute ==
    /\ clock < MaxClock
    /\ clock' = clock + 1
    /\ UNCHANGED <<notRateVars, cfg, clients, mu, rpc, sweep, rlog>>

\* A minute passes on a machine where the steps under the mutex and the wake-up of
\* the sweep take no time to speak of: the sweep is asleep, not due, and nobody
\* holds or waits for the mutex.
MinuteOnTime ==
    /\ sweep.pc = "sleep"
    /\ clock < sweep.wake
    /\ mu = Free
    /\ \A g \in Goroutines : rpc[g].pc # "lock"
    /\ Minute

(***************************************************************************)
(* The middleware chain of routes(): metrics, recoverPanic, enableCORS,    *)
(* rateLimit, authenticate, the router, the gate of the route and its      *)
(* handler.  A request is at the layer its pc names; trail lists the       *)
(* layers that ran for it, by the layer that answered it, and panic tells  *)
(* that a panic is unwinding its stack.  What a layer reads of the request *)
(* is drawn when the layer runs.  A panic, where the code has one, comes   *)
(* before the layer writes anything.                                       *)
(***************************************************************************)
PipeReqs == 1 .. MaxPipe

\* The status codes the chain answers.
Statuses == {200, 201, 401, 403, 404, 409, 429, 500}

PipeRoutes == {"GET /v1/healthcheck", "GET /v1/movies", "POST /v1/movies"}

PipeHeaders ==
    {<<>>, <<"Bearer", [n |-> 1, len |-> TokenLen]>>,
     <<"Bearer", [n |-> 1, len |-> TokenLen - 1]>>}

IdlePipe ==
    [pc |-> "idle", trail |-> <<>>, status |-> 0, by |-> "none", close |-> FALSE,
     panic |-> FALSE, lookup |-> FALSE, user |-> ZeroUser, route |-> "none",
     request |-> [method |-> "", origin |-> "", acrm |-> ""],
     cors |-> [allowOrigin |-> "", allowMethods |-> "", allowHeaders |-> "", status |-> 0]]

\* A chain that authenticates before it limits the rate.
InnerAuthenticateFirst(layer) ==
    CASE layer = "metrics" -> "recoverPanic"
      [] layer = "recoverPanic" -> "enableCORS"
      [] layer = "enableCORS" -> "authenticate"
      [] layer = "authenticate" -> "rateLimit"
      [] layer = "rateLimit" -> "router"

\* The handler a middleware of the chain wraps, as routes() nests them.
Inner(layer) ==
    CASE layer = "metrics" -> "recoverPanic"
      [] layer = "recoverPanic" -> "enableCORS"
      [] layer = "enableCORS" -> "rateLimit"
      [] layer = "rateLimit" -> "authenticate"
      [] layer = "authenticate" -> "router"

\* A layer starts to run for a request.
Entered(q, layer) == [q EXCEPT !.trail = Append(@, layer)]

\* A layer writes the response and returns.
Answered(q, layer, status) ==
    [q EXCEPT !.pc = "return", !.status = status, !.by = layer]

\* A layer panics.
Panicked(q) == [q EXCEPT !.pc = "return", !.panic = TRUE]

\* metrics: total_requests_received is added to and the rest of the chain is called
\* under httpsnoop.CaptureMetrics.
PipeMetrics(g) ==
    /\ ~crashed
    /\ preq[g].pc = "idle"
    /\ received < MaxReceived
    /\ received' = received + 1
    /\ preq' = [preq EXCEPT ![g] = [Entered(IdlePipe, "metrics") EXCEPT !.pc = Inner("metrics")]]
    /\ UNCHANGED <<movieVars, userVars, callVars, authVars, rateVars, bgVars,
                   sent, byStatus, finished, crashed, olog>>

\* recoverPanic: the recover is deferred and the next handler called.
PipeRecoverPanic(g) ==
    /\ ~crashed
    /\ preq[g].pc = "recoverPanic"
    /\ preq' = [preq EXCEPT ![g] =
                  [Entered(@, "recoverPanic") EXCEPT !.pc = Inner("recoverPanic")]]
    /\ UNCHANGED <<movieVars, userVars, callVars, authVars, rateVars, bgVars,
                   received, sent, byStatus, finished, crashed, olog>>

\* What enableCORS reads of a request: its method and its Origin and
\* Access-Control-Request-Method headers, "" for a header left out.
CorsRequest(method, origin, acrm) == [method |-> method, origin |-> origin, acrm |-> acrm]

\* An enableCORS that reflects every Origin once a trusted origin is configured.
EnableCORSAnyOrigin(trustedOrigins, r) ==
    LET match == r.origin # "" /\ Len(trustedOrigins) # 0
        preflight == r.method = "OPTIONS" /\ r.acrm # ""
    IN  [allowOrigin |-> IF match THEN r.origin ELSE "",
         allowMethods |-> IF match /\ preflight THEN "OPTIONS, PUT, PATCH, DELETE" ELSE "",
         allowHeaders |-> IF match /\ preflight THEN "Authorization, Content-Type" ELSE "",
         status |-> IF match /\ preflight THEN 200 ELSE 0]

\* An enableCORS that answers a preflight request only after the next handler ran.
EnableCORSNoShortCircuit(trustedOrigins, r) ==
    LET match == /\ r.origin # ""
                 /\ Len(trustedOrigins) # 0
                 /\ \E i \in 1 .. Len(trustedOrigins) : r.origin = trustedOrigins[i]
    IN  [allowOrigin |-> IF match THEN r.origin ELSE "",
         allowMethods |-> "", allowHeaders |-> "", status |-> 0]

\* enableCORS: the Access-Control headers it sets ("" for a header it does not
\* set), and the status it answers with, 0 when it calls the next handler.
EnableCORS(trustedOrigins, r) ==
    LET match == /\ r.origin # ""
                 /\ Len(trustedOrigins) # 0
                 /\ \E i \in 1 .. Len(trustedOrigins) : r.origin = trustedOrigins[i]
        preflight == r.method = "OPTIONS" /\ r.acrm # ""
    IN  [allowOrigin |-> IF match THEN r.origin ELSE "",
         allowMethods |-> IF match /\ preflight THEN "OPTIONS, PUT, PATCH, DELETE" ELSE "",
         allowHeaders |-> IF match /\ preflight THEN "Authorization, Content-Type" ELSE "",
         status |-> IF match /\ preflight THEN 200 ELSE 0]

\* The -cors-trusted-origins of the runs of the chain, and the requests sent to
\* it: one without Origin, a preflight request of a trusted origin, one of another
\* origin and one without Origin.
PipeTrustedOrigins == <<"https://a.example">>
PipeCors ==
    {CorsRequest("GET", "", ""), CorsRequest("OPTIONS", "https://a.example", "PUT"),
     CorsRequest("OPTIONS", "https://evil.example", "PUT"),
     CorsRequest("OPTIONS", "", "PUT")}

\* enableCORS in the chain: it answers the request itself or calls the next
\* handler.
PipeEnableCORS(g, r) ==
    /\ ~crashed
    /\ preq[g].pc = "enableCORS"
    /\ LET q == [Entered(preq[g], "enableCORS") EXCEPT !.request = r]
           c == EnableCORS(PipeTrustedOrigins, r)
       IN  preq' = [preq EXCEPT ![g] =
                      IF c.status # 0
                      THEN [Answered(q, "enableCORS", c.status) EXCEPT !.cors = c]
                      ELSE [q EXCEPT !.pc = Inner("enableCORS"), !.cors = c]]
    /\ UNCHANGED <<movieVars, userVars, callVars, authVars, rateVars, bgVars,
                   received, sent, byStatus, finished, crashed, olog>>

\* rateLimit: with the limiter enabled, the steps under the mutex for the client's
\* ip, then either rateLimitExceededResponse or the next handler.
PipeRateLimit(g, ip, panics) ==
    /\ ~crashed
    /\ preq[g].pc = "rateLimit"
    /\ mu = Free
    /\ LET q == Entered(preq[g], "rateLimit")
           old == IF ip \in DOMAIN clients
                  THEN clients[ip]
                  ELSE [limiter |-> NewLimiter(cfg, clock), lastSeen |-> clock]
           got == Allow(cfg, old.limiter, clock)
       IN  IF panics
           THEN /\ preq' = [preq EXCEPT ![g] = Panicked(q)]
                /\ UNCHANGED clients
           ELSE IF ~cfg.enabled
           THEN /\ preq' = [preq EXCEPT ![g] = [q EXCEPT !.pc = Inner("rateLimit")]]
                /\ UNCHANGED clients
           ELSE /\ clients' = [i \in DOMAIN clients \cup {ip} |->
                                 IF i = ip
                                 THEN [limiter |-> got.limiter, lastSeen |-> clock]
                                 ELSE clients[i]]
                /\ preq' = [preq EXCEPT ![g] =
                              IF got.ok
                              THEN [q EXCEPT !.pc = Inner("rateLimit")]
                              ELSE Answered(q, "rateLimit", 429)]
    /\ UNCHANGED <<movieVars, userVars, callVars, authVars, bgVars,
                   cfg, clock, mu, rpc, sweep, rlog,
                   received, sent, byStatus, finished, crashed, olog>>

\* authenticate: AuthenticateDecision on the Authorization header.
PipeAuthenticate(g, header, panics) ==
    /\ ~crashed
    /\ preq[g].pc = "authenticate"
    /\ LET q == Entered(preq[g], "authenticate")
           d == AuthenticateDecision(header, tokens, users, now)
       IN  preq' = [preq EXCEPT ![g] =
                      IF panics THEN Panicked(q)
                      ELSE IF d.status # 0
                      THEN [Answered(q, "authenticate", d.status) EXCEPT !.lookup = d.lookup]
                      ELSE [q EXCEPT !.pc = Inner("authenticate"), !.user = d.user,
                                     !.lookup = d.lookup]]
    /\ UNCHANGED <<movieVars, userVars, callVars, authVars, rateVars, bgVars,
                   received, sent, byStatus, finished, crashed, olog>>

\* The router: the movie routes are registered wrapped in requirePermission, the
\* healthcheck bare.  No route is registered for OPTIONS: httprouter answers an
\* OPTIONS request for a registered path itself, with the Allow header.
PipeRouter(g, route) ==
    /\ ~crashed
    /\ preq[g].pc = "router"
    /\ preq' = [preq EXCEPT ![g] =
                  IF @.request.method = "OPTIONS"
                  THEN Answered(Entered(@, "router"), "router", 200)
                  ELSE [Entered(@, "router") EXCEPT
                           !.route = route,
                           !.pc = IF route \in MovieRoutes THEN "gate" ELSE "handler"]]
    /\ UNCHANGED <<movieVars, userVars, callVars, authVars, rateVars, bgVars,
                   received, sent, byStatus, finished, crashed, olog>>

\* The gate of a movie route: RequirePermission on the user of the request context
\* (contextGetUser panics when the context holds no user).
PipeGate(g, panics) ==
    /\ ~crashed
    /\ preq[g].pc = "gate"
    /\ LET q == Entered(preq[g], "gate")
           d == RequirePermission(RouteCode(q.route), q.user, perms)
       IN  preq' = [preq EXCEPT ![g] =
                      IF panics THEN Panicked(q)
                      ELSE IF d.status # 0 THEN Answered(q, "gate", d.status)
                      ELSE [q EXCEPT !.pc = "handler"]]
    /\ UNCHANGED <<movieVars, userVars, callVars, authVars, rateVars, bgVars,
                   received, sent, byStatus, finished, crashed, olog>>

\* The handler of the route: healthcheckHandler writes 200, a movie handler what
\* MovieHandler says.
PipeHandler(g, panics) ==
    /\ ~crashed
    /\ preq[g].pc = "handler"
    /\ LET q == Entered(preq[g], "handler")
           h == MovieHandler(q.route, movies, nextId, now)
       IN  IF panics
           THEN /\ preq' = [preq EXCEPT ![g] = Panicked(q)]
                /\ UNCHANGED <<movies, nextId>>
           ELSE /\ preq' = [preq EXCEPT ![g] = Answered(q, "handler", h.status)]
                /\ movies' = h.store
                /\ nextId' = h.seq
    /\ UNCHANGED <<mreq, userVars, callVars, authVars, rateVars, bgVars,
                   received, sent, byStatus, finished, crashed, olog>>

\* A recoverPanic without the deferred recover: the panic reaches the top of the
\* goroutine's stack.
RecoverPanicNoRecover(q) ==
    IF q.panic
    THEN [status |-> q.status, close |-> FALSE, crashed |-> TRUE]
    ELSE [status |-> q.status, close |-> FALSE, crashed |-> FALSE]

\* recoverPanic's deferred function, as the stack unwinds to it: a panic is
\* recovered, "Connection: close" set and serverErrorResponse called.
RecoverPanic(q) ==
    IF q.panic
    THEN [status |-> 500, close |-> TRUE, crashed |-> FALSE]
    ELSE [status |-> q.status, close |-> FALSE, crashed |-> FALSE]

\* The chain returns to metrics, through the deferred function of recoverPanic.
PipeReturn(g) ==
    /\ ~crashed
    /\ preq[g].pc = "return"
    /\ LET d == RecoverPanic(preq[g])
       IN  /\ crashed' = d.crashed
           /\ preq' = [preq EXCEPT ![g].pc = "sent", ![g].status = d.status,
                                   ![g].close = d.close,
                                   ![g].by = IF preq[g].panic THEN "recoverPanic" ELSE @]
    /\ UNCHANGED <<movieVars, userVars, callVars, authVars, rateVars, bgVars,
                   received, sent, byStatus, finished, olog>>

\* metrics, after CaptureMetrics returned: totalResponseSent.Add(1).
PipeSent(g) ==
    /\ ~crashed
    /\ preq[g].pc = "sent"
    /\ sent' = sent + 1
    /\ preq' = [preq EXCEPT ![g].pc = "byStatus"]
    /\ UNCHANGED <<movieVars, userVars, callVars, authVars, rateVars, bgVars,
                   received, byStatus, finished, crashed, olog>>

\* metrics: totalProcessingTimeMicroseconds.Add and
\* totalResponseSentByStatus.Add(code, 1), and the handler returns.
PipeByStatus(g) ==
    /\ ~crashed
    /\ preq[g].pc = "byStatus"
    /\ byStatus' = [byStatus EXCEPT ![preq[g].status] = @ + 1]
    /\ finished' = Append(finished, [status |-> preq[g].status, panic |-> preq[g].panic,
                                     close |-> preq[g].close])
    /\ preq' = [preq EXCEPT ![g] = IdlePipe]
    /\ UNCHANGED <<movieVars, userVars, callVars, authVars, rateVars, bgVars,
                   received, sent, crashed, olog>>

(***************************************************************************)
(* registerUserHandler, app.background and serve.  A call of the handler   *)
(* runs the statements up to Tokens.New, then app.background, then         *)
(* writeJSON, then the test of err.  The function it hands to              *)
(* app.background assigns the result of mailer.Send to the handler's own   *)
(* err variable, which the closure captured; nothing orders that write     *)
(* and the handler's accesses, so every interleaving of them is a          *)
(* behaviour.  A response is the status of the first WriteHeader and the   *)
(* documents written to the body, in order.                                *)
(***************************************************************************)
Regs == 1 .. MaxReg

ErrSend == "mailer: send failed"

\* The bodies of POST /v1/users: one readJSON rejects, and those it decodes, with
\* the length in bytes of the name and of the password.
RegBodies ==
    {[ok |-> FALSE, name |-> 0, email |-> "", password |-> 0],
     [ok |-> TRUE, name |-> 3, email |-> "cat@x.com", password |-> 11],
     [ok |-> TRUE, name |-> 3, email |-> "dan@x.com", password |-> 11],
     [ok |-> TRUE, name |-> 3, email |-> "ann@x.com", password |-> 11],
     [ok |-> TRUE, name |-> 3, email |-> "cat.x.com", password |-> 11],
     [ok |-> TRUE, name |-> 3, email |-> "cat@x.com", password |-> 7]}

\* The statement of the handler that fails for a reason outside the request.
RegFaults == {"none", "Password.Set", "Users.Insert", "Permissions.AddForUser", "Tokens.New"}

\* validator.Matches(email, validator.EmailRX), on the emails of the bodies.
MatchesEmailRX(email) == email \in {"ann@x.com", "bob@x.com", "cat@x.com", "dan@x.com"}

\* data.ValidateUser: TRUE iff no check records a failure.
ValidateUser(body) ==
    /\ body.name # 0
    /\ body.name <= 500
    /\ body.email # ""
    /\ MatchesEmailRX(body.email)
    /\ body.password # 0
    /\ body.password >= 8
    /\ body.password <= 72

IdleReg ==
    [pc |-> "idle", err |-> ErrNil, status |-> 0, body |-> <<>>, user |-> 0,
     spawned |-> 0, errorPath |-> FALSE,
     input |-> [ok |-> FALSE, name |-> 0, email |-> "", password |-> 0],
     fault |-> "none"]

NoTask == [pc |-> "none", panic |-> FALSE, logged |-> FALSE]

\* The process runs: serve has not returned to main and no panic killed it.
Running == srv.main = "ListenAndServe" \/ srv.main = "receive"

\* A handler writes a response and returns; a later WriteHeader does not change the
\* status.
RegRespond(q, status, doc) ==
    [q EXCEPT !.pc = "done", !.status = IF @ = 0 THEN status ELSE @,
              !.body = Append(@, doc)]

\* registerUserHandler from readJSON to Tokens.New: each statement either fails and
\* the handler answers, or adds its rows to the store.
RegStart(h, body, fault) ==
    /\ Running /\ ~crashed
    /\ srv.accepting
    /\ hreq[h].pc = "idle"
    /\ LET q == [hreq[h] EXCEPT !.input = body, !.fault = fault]
           user == [ZeroUser EXCEPT !.name = "new", !.email = body.email,
                                    !.password_hash = "h3", !.activated = FALSE]
           ins == UserInsert(users, nextUserId, user)
       IN  IF ~body.ok
           THEN /\ hreq' = [hreq EXCEPT ![h] = RegRespond(q, 400, "error")]
                /\ UNCHANGED <<users, nextUserId, perms, tokens, issued>>
           ELSE IF fault = "Password.Set"
           THEN /\ hreq' = [hreq EXCEPT ![h] = RegRespond(q, 500, "error")]
                /\ UNCHANGED <<users, nextUserId, perms, tokens, issued>>
           ELSE IF ~ValidateUser(body)
           THEN /\ hreq' = [hreq EXCEPT ![h] = RegRespond(q, 422, "error")]
                /\ UNCHANGED <<users, nextUserId, perms, tokens, issued>>
           ELSE IF fault = "Users.Insert"
           THEN /\ hreq' = [hreq EXCEPT ![h] = RegRespond(q, 500, "error")]
                /\ UNCHANGED <<users, nextUserId, perms, tokens, issued>>
           ELSE IF ins.err = ErrDuplicateEmail
           THEN /\ hreq' = [hreq EXCEPT ![h] = RegRespond(q, 422, "error")]
                /\ UNCHANGED <<users, nextUserId, perms, tokens, issued>>
           ELSE IF fault = "Permissions.AddForUser"
           THEN /\ hreq' = [hreq EXCEPT ![h] = RegRespond(q, 500, "error")]
                /\ users' = ins.store
                /\ nextUserId' = nextUserId + 1
                /\ UNCHANGED <<perms, tokens, issued>>
           ELSE IF fault = "Tokens.New"
           THEN /\ hreq' = [hreq EXCEPT ![h] = RegRespond(q, 500, "error")]
                /\ users' = ins.store
                /\ nextUserId' = nextUserId + 1
                /\ perms' = AddForUser(perms, ins.user.id, {"movies:read"})
                /\ UNCHANGED <<tokens, issued>>
           ELSE /\ \E n \in FreshBytes :
                     LET new == TokenNew(tokens, ins.user.id, ActivationTTL,
                                         ScopeActivation, now, n)
                     IN  /\ tokens' = new.table
                         /\ issued' = issued \cup
                               {[plaintext |-> new.token.plaintext, user |-> ins.user.id,
                                 scope |-> ScopeActivation, expiry |-> now + ActivationTTL,
                                 revoked |-> FALSE]}
                /\ users' = ins.store
                /\ nextUserId' = nextUserId + 1
                /\ perms' = AddForUser(perms, ins.user.id, {"movies:read"})
                /\ hreq' = [hreq EXCEPT ![h] = [q EXCEPT !.pc = "background",
                                                         !.user = ins.user.id]]
    /\ UNCHANGED <<movieVars, callVars, rateVars, pipeVars, now, areq, task, wg, srv, olog>>

\* An app.background that starts the goroutine for a handler that answered an
\* error as well.
RegBackgroundAlways(h) ==
    /\ Running /\ ~crashed
    /\ \/ hreq[h].pc = "background"
       \/ hreq[h].pc = "done" /\ hreq[h].spawned = 0
    /\ wg' = wg + 1
    /\ task' = [task EXCEPT ![h] = [NoTask EXCEPT !.pc = "fn"]]
    /\ hreq' = [hreq EXCEPT ![h].pc = IF @ = "done" THEN @ ELSE "writeJSON",
                            ![h].spawned = @ + 1]
    /\ UNCHANGED <<movieVars, userVars, callVars, authVars, rateVars, pipeVars, srv, olog>>

\* app.background(fn), called by the handler: wg.Add(1), and the goroutine that
\* runs fn is started.
RegBackground(h) ==
    /\ Running /\ ~crashed
    /\ hreq[h].pc = "background"
    /\ wg' = wg + 1
    /\ task' = [task EXCEPT ![h] = [NoTask EXCEPT !.pc = "fn"]]
    /\ hreq' = [hreq EXCEPT ![h].pc = "writeJSON", ![h].spawned = @ + 1]
    /\ UNCHANGED <<movieVars, userVars, callVars, authVars, rateVars, pipeVars, srv, olog>>

\* A handler that writes its response once the task it started has returned.
RegWriteJSONAfterTask(h) ==
    /\ Running /\ ~crashed
    /\ hreq[h].pc = "writeJSON"
    /\ task[h].pc = "done"
    /\ hreq' = [hreq EXCEPT ![h] =
                  [RegRespond(@, 202, [id |-> @.user, activated |-> users[@.user].activated])
                      EXCEPT !.pc = "check", !.err = ErrNil]]
    /\ UNCHANGED <<movieVars, userVars, callVars, authVars, rateVars, pipeVars,
                   task, wg, srv, olog>>

\* err = app.writeJSON(w, 202, envelop{"user": user}, nil): the user marshals, so
\* the 202 and the body are written and err is nil.
RegWriteJSON(h) ==
    /\ Running /\ ~crashed
    /\ hreq[h].pc = "writeJSON"
    /\ hreq' = [hreq EXCEPT ![h] =
                  [RegRespond(@, 202, [id |-> @.user, activated |-> users[@.user].activated])
                      EXCEPT !.pc = "check", !.err = ErrNil]]
    /\ UNCHANGED <<movieVars, userVars, callVars, authVars, rateVars, pipeVars,
                   task, wg, srv, olog>>

\* if err != nil { app.serverErrorResponse(w, r, err) }: the error is logged and an
\* error document written to the response.
RegCheck(h) ==
    /\ Running /\ ~crashed
    /\ hreq[h].pc = "check"
    /\ hreq' = [hreq EXCEPT ![h] =
                  IF @.err # ErrNil
                  THEN [RegRespond(@, 500, "error") EXCEPT !.errorPath = TRUE]
                  ELSE [@ EXCEPT !.pc = "done"]]
    /\ UNCHANGED <<movieVars, userVars, callVars, authVars, rateVars, pipeVars,
                   task, wg, srv, olog>>

\* The function handed to app.background: err = app.mailer.Send(...), an error is
\* logged.  Send returns nil or an error, or panics.
TaskSend(h, result) ==
    /\ Running /\ ~crashed
    /\ task[h].pc = "fn"
    /\ task' = [task EXCEPT ![h].pc = "deferred", ![h].panic = (result = "panic"),
                            ![h].logged = (result = "fail")]
    /\ hreq' = [hreq EXCEPT ![h].err = CASE result = "ok" -> ErrNil
                                         [] result = "fail" -> ErrSend
                                         [] OTHER -> @]
    /\ UNCHANGED <<movieVars, userVars, callVars, authVars, rateVars, pipeVars, wg, srv, olog>>

\* A goroutine without the deferred recover: wg.Done runs while the panic unwinds
\* and the panic ends the process.
TaskExitNoRecover(h) ==
    /\ Running /\ ~crashed
    /\ task[h].pc = "deferred"
    /\ task' = [task EXCEPT ![h].pc = "done"]
    /\ wg' = wg - 1
    /\ crashed' = task[h].panic
    /\ UNCHANGED <<movieVars, userVars, callVars, authVars, rateVars,
                   preq, received, sent, byStatus, finished, hreq, srv, olog>>

\* The deferred functions of the goroutine, last first: recover and log a panic,
\* then wg.Done.
TaskExit(h) ==
    /\ Running /\ ~crashed
    /\ task[h].pc = "deferred"
    /\ task' = [task EXCEPT ![h].pc = "done", ![h].logged = @ \/ task[h].panic]
    /\ wg' = wg - 1
    /\ crashed' = FALSE
    /\ UNCHANGED <<movieVars, userVars, callVars, authVars, rateVars,
                   preq, received, sent, byStatus, finished, hreq, srv, olog>>

\* The calls of registerUserHandler that have not returned.
RegInFlight == {h \in Regs : hreq[h].pc \notin {"idle", "done"}}

\* serve's goroutine receives SIGINT or SIGTERM from quit.
ServeSignal ==
    /\ Running /\ ~crashed
    /\ srv.go = "quit"
    /\ srv' = [srv EXCEPT !.go = "Shutdown"]
    /\ UNCHANGED <<movieVars, userVars, callVars, authVars, rateVars, pipeVars,
                   hreq, task, wg, olog>>

\* srv.Shutdown(ctx) is called: the listener is closed, and ListenAndServe returns
\* ErrServerClosed to serve, which goes on to receive from shutdownError.
ServeShutdown ==
    /\ Running /\ ~crashed
    /\ srv.go = "Shutdown"
    /\ srv' = [srv EXCEPT !.go = "draining", !.accepting = FALSE, !.main = "receive"]
    /\ UNCHANGED <<movieVars, userVars, callVars, authVars, rateVars, pipeVars,
                   hreq, task, wg, olog>>

\* Shutdown returns nil: no request is in flight.
ServeDrained ==
    /\ Running /\ ~crashed
    /\ srv.go = "draining"
    /\ RegInFlight = {}
    /\ srv' = [srv EXCEPT !.go = "Wait"]
    /\ UNCHANGED <<movieVars, userVars, callVars, authVars, rateVars, pipeVars,
                   hreq, task, wg, olog>>

\* The 5 seconds of ctx pass with a request still in flight: Shutdown returns the
\* context's error.
ServeDeadline ==
    /\ Running /\ ~crashed
    /\ srv.go = "draining"
    /\ RegInFlight # {}
    /\ srv' = [srv EXCEPT !.go = "send err"]
    /\ UNCHANGED <<movieVars, userVars, callVars, authVars, rateVars, pipeVars,
                   hreq, task, wg, olog>>

\* shutdownError <- err, received by serve, which returns the error to main.
ServeSendErr ==
    /\ Running /\ ~crashed
    /\ srv.go = "send err"
    /\ srv.main = "receive"
    /\ srv' = [srv EXCEPT !.go = "Wait", !.main = "returned err"]
    /\ UNCHANGED <<movieVars, userVars, callVars, authVars, rateVars, pipeVars,
                   hreq, task, wg, olog>>

\* A wait that gives up while tasks are running.
ServeWaitGivesUp ==
    /\ Running /\ ~crashed
    /\ srv.go = "Wait"
    /\ srv' = [srv EXCEPT !.go = "send nil"]
    /\ UNCHANGED <<movieVars, userVars, callVars, authVars, rateVars, pipeVars,
                   hreq, task, wg, olog>>

\* app.wg.Wait() returns: the counter is zero.
ServeWait ==
    /\ Running /\ ~crashed
    /\ srv.go = "Wait"
    /\ wg = 0
    /\ srv' = [srv EXCEPT !.go = "send nil"]
    /\ UNCHANGED <<movieVars, userVars, callVars, authVars, rateVars, pipeVars,
                   hreq, task, wg, olog>>

\* shutdownError <- nil, received by serve, which logs "stopped server" and returns
\* nil.
ServeSendNil ==
    /\ Running /\ ~crashed
    /\ srv.go = "send nil"
    /\ srv.main = "receive"
    /\ srv' = [srv EXCEPT !.go = "end", !.main = "returned nil"]
    /\ UNCHANGED <<movieVars, userVars, callVars, authVars, rateVars, pipeVars,
                   hreq, task, wg, olog>>

(***************************************************************************)
(* The responses of the handlers as functions of what their calls of the   *)
(* data layer return.  A response is its status, its Content-Type, the     *)
(* keys of the top-level JSON object of its body (none for a body that is  *)
(* not JSON) and, for the key error, whether its value is a string or the  *)
(* map of the validator's field errors, with the fields the map names.     *)
(* An outcome is the response with the results of the store calls the      *)
(* handler made, in order.                                                 *)
(***************************************************************************)
\* The response of writeJSON with an envelope of one key.
WriteJSON(status, key) ==
    [status |-> status, ctype |-> "application/json", keys |-> {key},
     error |-> "none", fields |-> {}]

\* errorResponse with a string message: envelop{"error": message}.
ErrorResponse(status) ==
    [status |-> status, ctype |-> "application/json", keys |-> {"error"},
     error |-> "string", fields |-> {}]

\* failedValidationResponse: errorResponse with the validator's map, 422.
FailedValidationResponse(fields) ==
    [status |-> 422, ctype |-> "application/json", keys |-> {"error"},
     error |-> "fields", fields |-> fields]

\* http.NotFound: the text "404 page not found".
HttpNotFound ==
    [status |-> 404, ctype |-> "text/plain", keys |-> {}, error |-> "none", fields |-> {}]

NotFoundResponse == ErrorResponse(404)
BadRequestResponse == ErrorResponse(400)
EditConflictResponse == ErrorResponse(409)
ServerErrorResponse == ErrorResponse(500)

Outcome(resp, store) == [resp |-> resp, store |-> store]

\* A call of a method of the data layer and the error it returned.
Did(op, err) == [op |-> op, err |-> err]

\* showMovieHandler.
ShowMovieOutcome(idOk, get) ==
    IF ~idOk THEN Outcome(HttpNotFound, <<>>)
    ELSE IF get = ErrRecordNotFound THEN Outcome(NotFoundResponse, <<Did("Movies.Get", get)>>)
    ELSE IF get # ErrNil THEN Outcome(ServerErrorResponse, <<Did("Movies.Get", get)>>)
    ELSE Outcome(WriteJSON(200, "movie"), <<Did("Movies.Get", get)>>)

\* listMoviesHandler.
ListMoviesOutcome(verrs, getAll) ==
    IF verrs # {} THEN Outcome(FailedValidationResponse(verrs), <<>>)
    ELSE IF getAll # ErrNil THEN Outcome(ServerErrorResponse, <<Did("Movies.GetAll", getAll)>>)
    ELSE Outcome([WriteJSON(200, "movies") EXCEPT !.keys = {"movies", "metadata"}],
                 <<Did("Movies.GetAll", getAll)>>)

\* A deleteMovieHandler that answers every error of Delete as it answers success.
DeleteMovieOutcomeIgnoresError(idOk, del) ==
    IF ~idOk THEN Outcome(NotFoundResponse, <<>>)
    ELSE Outcome(WriteJSON(200, "message"), <<Did("Movies.Delete", del)>>)

\* deleteMovieHandler.
DeleteMovieOutcome(idOk, del) ==
    IF ~idOk THEN Outcome(NotFoundResponse, <<>>)
    ELSE IF del = ErrRecordNotFound THEN Outcome(NotFoundResponse, <<Did("Movies.Delete", del)>>)
    ELSE IF del # ErrNil THEN Outcome(ServerErrorResponse, <<Did("Movies.Delete", del)>>)
    ELSE Outcome(WriteJSON(200, "message"), <<Did("Movies.Delete", del)>>)

\* A createMovieHandler that inserts the movie before it validates it.
CreateMovieOutcomeInsertsFirst(bodyOk, verrs, ins) ==
    IF ~bodyOk THEN Outcome(BadRequestResponse, <<>>)
    ELSE IF ins # ErrNil THEN Outcome(ServerErrorResponse, <<Did("Movies.Insert", ins)>>)
    ELSE IF verrs # {}
    THEN Outcome(FailedValidationResponse(verrs), <<Did("Movies.Insert", ins)>>)
    ELSE Outcome(WriteJSON(201, "movie"), <<Did("Movies.Insert", ins)>>)

\* createMovieHandler.
CreateMovieOutcome(bodyOk, verrs, ins) ==
    IF ~bodyOk THEN Outcome(BadRequestResponse, <<>>)
    ELSE IF verrs # {} THEN Outcome(FailedValidationResponse(verrs), <<>>)
    ELSE IF ins # ErrNil THEN Outcome(ServerErrorResponse, <<Did("Movies.Insert", ins)>>)
    ELSE Outcome(WriteJSON(201, "movie"), <<Did("Movies.Insert", ins)>>)

\* updateMovieHandler.
UpdateMovieOutcome(idOk, get, bodyOk, verrs, upd) ==
    IF ~idOk THEN Outcome(NotFoundResponse, <<>>)
    ELSE IF get = ErrRecordNotFound THEN Outcome(NotFoundResponse, <<Did("Movies.Get", get)>>)
    ELSE IF get # ErrNil THEN Outcome(ServerErrorResponse, <<Did("Movies.Get", get)>>)
    ELSE IF ~bodyOk THEN Outcome(BadRequestResponse, <<Did("Movies.Get", get)>>)
    ELSE IF verrs # {} THEN Outcome(FailedValidationResponse(verrs), <<Did("Movies.Get", get)>>)
    ELSE IF upd = ErrEditConflict THEN Outcome(EditConflictResponse,
            <<Did("Movies.Get", get), Did("Movies.Update", upd)>>)
    ELSE IF upd # ErrNil THEN Outcome(ServerErrorResponse,
            <<Did("Movies.Get", get), Did("Movies.Update", upd)>>)
    ELSE Outcome(WriteJSON(200, "movie"), <<Did("Movies.Get", get), Did("Movies.Update", upd)>>)

\* registerUserHandler, up to its response.
RegisterUserOutcome(bodyOk, hashOk, verrs, ins, add, new) ==
    IF ~bodyOk THEN Outcome(BadRequestResponse, <<>>)
    ELSE IF ~hashOk THEN Outcome(ServerErrorResponse, <<>>)
    ELSE IF verrs # {} THEN Outcome(FailedValidationResponse(verrs), <<>>)
    ELSE IF ins = ErrDuplicateEmail
    THEN Outcome(FailedValidationResponse(verrs \cup {"email"}), <<Did("Users.Insert", ins)>>)
    ELSE IF ins # ErrNil THEN Outcome(ServerErrorResponse, <<Did("Users.Insert", ins)>>)
    ELSE IF add # ErrNil THEN Outcome(ServerErrorResponse,
            <<Did("Users.Insert", ins), Did("Permissions.AddForUser", add)>>)
    ELSE IF new # ErrNil THEN Outcome(ServerErrorResponse,
            <<Did("Users.Insert", ins), Did("Permissions.AddForUser", add),
              Did("Tokens.New", new)>>)
    ELSE Outcome(WriteJSON(202, "user"),
            <<Did("Users.Insert", ins), Did("Permissions.AddForUser", add),
              Did("Tokens.New", new)>>)

\* activateUserHandler.
ActivateUserOutcome(bodyOk, verrs, get, upd, del) ==
    IF ~bodyOk THEN Outcome(BadRequestResponse, <<>>)
    ELSE IF verrs # {} THEN Outcome(FailedValidationResponse(verrs), <<>>)
    ELSE IF get = ErrRecordNotFound
    THEN Outcome(FailedValidationResponse(verrs \cup {"token"}), <<Did("Users.GetForToken", get)>>)
    ELSE IF get # ErrNil THEN Outcome(ServerErrorResponse, <<Did("Users.GetForToken", get)>>)
    ELSE IF upd = ErrEditConflict THEN Outcome(EditConflictResponse,
            <<Did("Users.GetForToken", get), Did("Users.Update", upd)>>)
    ELSE IF upd # ErrNil THEN Outcome(ServerErrorResponse,
            <<Did("Users.GetForToken", get), Did("Users.Update", upd)>>)
    ELSE IF del # ErrNil THEN Outcome(ServerErrorResponse,
            <<Did("Users.GetForToken", get), Did("Users.Update", upd),
              Did("Tokens.DeleteAllForUser", del)>>)
    ELSE Outcome(WriteJSON(200, "user"),
            <<Did("Users.GetForToken", get), Did("Users.Update", upd),
              Did("Tokens.DeleteAllForUser", del)>>)

\* What the calls of the data layer return: Get and Delete nil, not-found or a
\* fault of the store; Update nil, edit-conflict or a fault; UserModel.Insert nil,
\* duplicate email or a fault; the others nil or a fault.
GetErrs == {ErrNil, ErrRecordNotFound, ErrStore}
UpdateErrs == {ErrNil, ErrEditConflict, ErrStore}
UserInsertErrs == {ErrNil, ErrDuplicateEmail, ErrStore}
ExecErrs == {ErrNil, ErrStore}

\* The log with one more call of a handler.
Logged(handler, out) ==
    Append(olog, [handler |-> handler, resp |-> out.resp, store |-> out.store])

CallShowMovie(idOk, get) ==
    /\ Len(olog) < MaxOutcomes
    /\ olog' = Logged("showMovieHandler", ShowMovieOutcome(idOk, get))
    /\ UNCHANGED <<movieVars, userVars, callVars, authVars, rateVars, pipeVars, bgVars>>

CallListMovies(verrs, getAll) ==
    /\ Len(olog) < MaxOutcomes
    /\ olog' = Logged("listMoviesHandler", ListMoviesOutcome(verrs, getAll))
    /\ UNCHANGED <<movieVars, userVars, callVars, authVars, rateVars, pipeVars, bgVars>>

CallDeleteMovie(idOk, del) ==
    /\ Len(olog) < MaxOutcomes
    /\ olog' = Logged("deleteMovieHandler", DeleteMovieOutcome(idOk, del))
    /\ UNCHANGED <<movieVars, userVars, callVars, authVars, rateVars, pipeVars, bgVars>>

CallCreateMovie(bodyOk, verrs, ins) ==
    /\ Len(olog) < MaxOutcomes
    /\ olog' = Logged("createMovieHandler", CreateMovieOutcome(bodyOk, verrs, ins))
    /\ UNCHANGED <<movieVars, userVars, callVars, authVars, rateVars, pipeVars, bgVars>>

CallUpdateMovie(idOk, get, bodyOk, verrs, upd) ==
    /\ Len(olog) < MaxOutcomes
    /\ olog' = Logged("updateMovieHandler",
                    UpdateMovieOutcome(idOk, get, bodyOk, verrs, upd))
    /\ UNCHANGED <<movieVars, userVars, callVars, authVars, rateVars, pipeVars, bgVars>>

CallRegisterUser(bodyOk, hashOk, verrs, ins, add, new) ==
    /\ Len(olog) < MaxOutcomes
    /\ olog' = Logged("registerUserHandler",
                    RegisterUserOutcome(bodyOk, hashOk, verrs, ins, add, new))
    /\ UNCHANGED <<movieVars, userVars, callVars, authVars, rateVars, pipeVars, bgVars>>

CallActivateUser(bodyOk, verrs, get, upd, del) ==
    /\ Len(olog) < MaxOutcomes
    /\ olog' = Logged("activateUserHandler",
                    ActivateUserOutcome(bodyOk, verrs, get, upd, del))
    /\ UNCHANGED <<movieVars, userVars, callVars, authVars, rateVars, pipeVars, bgVars>>

(***************************************************************************)
(* Callers of the data layer's Update.  A caller reads a record and then   *)
(* calls Update with it, any number of times, each time with the version   *)
(* it read: the retry of a write with a stale version.                     *)
(***************************************************************************)
Callers == 1 .. MaxCallers

NoSnap == [kind |-> "none", movie |-> ZeroMovie, user |-> ZeroUser]

\* The changes a caller makes to the record before it calls Update.
MovieEdits == { [title |-> 7, year |-> 2020], [title |-> 9, year |-> 1999] }
UserEdits == { [email |-> "ann@x.com", activated |-> TRUE],
               [email |-> "bob@x.com", activated |-> TRUE],
               [email |-> "cat@x.com", activated |-> FALSE] }

\* MovieModel.Get by a caller.
LoadMovie(c, id) ==
    /\ snap[c].kind = "none"
    /\ MovieGet(movies, id).err = ErrNil
    /\ snap' = [snap EXCEPT ![c] = [NoSnap EXCEPT !.kind = "movie",
                                                  !.movie = MovieGet(movies, id).movie]]
    /\ UNCHANGED <<movieVars, userVars, updLog, authVars, rateVars, pipeVars, bgVars, olog>>

\* UserModel.GetByEmail by a caller.
LoadUser(c, email) ==
    /\ snap[c].kind = "none"
    /\ UserGetByEmail(users, email).err = ErrNil
    /\ snap' = [snap EXCEPT ![c] = [NoSnap EXCEPT !.kind = "user",
                                                  !.user = UserGetByEmail(users, email).user]]
    /\ UNCHANGED <<movieVars, userVars, updLog, authVars, rateVars, pipeVars, bgVars, olog>>

\* MovieModel.Update called with the record read, edited.
CallMovieUpdate(c, edit) ==
    /\ snap[c].kind = "movie"
    /\ Len(updLog) < MaxCalls
    /\ LET movie == [snap[c].movie EXCEPT !.title = edit.title, !.year = edit.year]
           upd == MovieUpdate(movies, movie)
       IN  /\ movies' = upd.store
           /\ updLog' = Append(updLog,
                 [kind |-> "movie", id |-> movie.id, expected |-> movie.version,
                  err |-> upd.err, returned |-> upd.version,
                  unchanged |-> (upd.store = movies),
                  after |-> IF movie.id \in DOMAIN upd.store
                            THEN upd.store[movie.id].version ELSE 0,
                  wrote |-> movie.id \in DOMAIN upd.store
                            /\ upd.store[movie.id].title = movie.title
                            /\ upd.store[movie.id].year = movie.year])
    /\ UNCHANGED <<nextId, mreq, userVars, snap, authVars, rateVars, pipeVars, bgVars, olog>>

\* UserModel.Update called with the record read, edited.
CallUserUpdate(c, edit) ==
    /\ snap[c].kind = "user"
    /\ Len(updLog) < MaxCalls
    /\ LET user == [snap[c].user EXCEPT !.email = edit.email, !.activated = edit.activated]
           upd == UserUpdate(users, user)
       IN  /\ users' = upd.store
           /\ updLog' = Append(updLog,
                 [kind |-> "user", id |-> user.id, expected |-> user.version,
                  err |-> upd.err, returned |-> upd.version,
                  unchanged |-> (upd.store = users),
                  after |-> IF user.id \in DOMAIN upd.store
                            THEN upd.store[user.id].version ELSE 0,
                  wrote |-> user.id \in DOMAIN upd.store
                            /\ upd.store[user.id].email = user.email
                            /\ upd.store[user.id].activated = user.activated])
    /\ UNCHANGED <<movieVars, nextUserId, snap, authVars, rateVars, pipeVars, bgVars, olog>>

(***************************************************************************)
(* Specifications.  Every one starts from the same seeded store; each      *)
(* exercises one part of the program.                                      *)
(***************************************************************************)
Init ==
    /\ movies = SeedMovies
    /\ nextId = 2
    /\ mreq = [r \in Reqs |-> IdleReq]
    /\ users = SeedUsers
    /\ nextUserId = 3
    /\ snap = [c \in Callers |-> NoSnap]
    /\ updLog = <<>>
    /\ perms = SeedPerms
    /\ tokens = {}
    /\ now = 0
    /\ issued = {}
    /\ areq = [r \in AReqs |-> NewReq]
    /\ cfg = StartConfig
    /\ clock = 0
    /\ clients = <<>>
    /\ mu = Free
    /\ rpc = [g \in Goroutines |-> IdleGo]
    /\ sweep = [pc |-> "sleep", wake |-> SweepPeriod]
    /\ rlog = [ip \in IPs |-> NoDecisions]
    /\ preq = [g \in PipeReqs |-> IdlePipe]
    /\ received = 0
    /\ sent = 0
    /\ byStatus = [c \in Statuses |-> 0]
    /\ finished = <<>>
    /\ crashed = FALSE
    /\ hreq = [h \in Regs |-> IdleReg]
    /\ task = [h \in Regs |-> NoTask]
    /\ wg = 0
    /\ srv = [go |-> "quit", main |-> "ListenAndServe", accepting |-> TRUE]
    /\ olog = <<>>

\* The movie handlers, entered below the authorization gate.
NextMovies ==
    \E r \in Reqs :
        \/ \E body \in CreateBodies : CreateMovie(r, body)
        \/ \E id \in PathIds : ShowMovie(r, id)
        \/ \E id \in PathIds : PatchGet(r, id)
        \/ \E body \in PatchBodies : PatchUpdate(r, body)
        \/ \E id \in PathIds : DeleteMovie(r, id)

SpecMovies == Init /\ [][NextMovies]_vars

\* Update of the data layer, called again with the version first read.
NextUpdate ==
    \E c \in Callers :
        \/ \E id \in PathIds : LoadMovie(c, id)
        \/ \E email \in {"ann@x.com", "bob@x.com"} : LoadUser(c, email)
        \/ \E edit \in MovieEdits : CallMovieUpdate(c, edit)
        \/ \E edit \in UserEdits : CallUserUpdate(c, edit)

SpecUpdate == Init /\ [][NextUpdate]_vars

\* The middleware chain from authenticate inwards, the user and token handlers
\* and the clock.
NextAuth ==
    \/ \E r \in AReqs, header \in Headers : Authenticate(r, header)
    \/ \E r \in AReqs, route \in MovieRoutes : MovieRoute(r, route)
    \/ \E r \in AReqs, email \in {"ann@x.com", "cat@x.com"} : RegisterUser(r, email)
    \/ \E r \in AReqs, plaintext \in Plains : ActivateLookup(r, plaintext)
    \/ \E r \in AReqs : ActivateUpdate(r)
    \/ \E r \in AReqs : ActivateDelete(r)
    \/ \E userID \in 1 .. MaxUsers, scope \in Scopes : TokensNew(userID, TokenTTL, scope)
    \/ \E r \in AReqs : Finish(r)
    \/ Tick

SpecAuth == Init /\ [][NextAuth]_vars

\* The server started with any of the limiter settings.
InitRate ==
    /\ movies = SeedMovies
    /\ nextId = 2
    /\ mreq = [r \in Reqs |-> IdleReq]
    /\ users = SeedUsers
    /\ nextUserId = 3
    /\ snap = [c \in Callers |-> NoSnap]
    /\ updLog = <<>>
    /\ perms = SeedPerms
    /\ tokens = {}
    /\ now = 0
    /\ issued = {}
    /\ areq = [r \in AReqs |-> NewReq]
    /\ cfg \in Configs
    /\ clock = 0
    /\ clients = <<>>
    /\ mu = Free
    /\ rpc = [g \in Goroutines |-> IdleGo]
    /\ sweep = [pc |-> "sleep", wake |-> SweepPeriod]
    /\ rlog = [ip \in IPs |-> NoDecisions]
    /\ preq = [g \in PipeReqs |-> IdlePipe]
    /\ received = 0
    /\ sent = 0
    /\ byStatus = [c \in Statuses |-> 0]
    /\ finished = <<>>
    /\ crashed = FALSE
    /\ hreq = [h \in Regs |-> IdleReg]
    /\ task = [h \in Regs |-> NoTask]
    /\ wg = 0
    /\ srv = [go |-> "quit", main |-> "ListenAndServe", accepting |-> TRUE]
    /\ olog = <<>>

\* rateLimit: the requests, the sweep and the clock.
NextRate ==
    \/ \E g \in Goroutines, ip \in IPs : Arrive(g, ip)
    \/ \E g \in Goroutines : Lock(g)
    \/ \E g \in Goroutines : Lookup(g)
    \/ \E g \in Goroutines : SeenAllow(g)
    \/ \E g \in Goroutines : Unlock(g)
    \/ \E g \in Goroutines : Served(g)
    \/ SweepWake
    \/ SweepLock
    \/ SweepScan
    \/ SweepUnlock
    \/ Minute

SpecRate == InitRate /\ [][NextRate]_vars

\* rateLimit with the sweep on time: its sleep lasts a minute, and neither it nor a
\* request is held up at the mutex while the clock moves.
NextSweep ==
    \/ \E g \in Goroutines, ip \in IPs : Arrive(g, ip)
    \/ \E g \in Goroutines : Lock(g)
    \/ \E g \in Goroutines : Lookup(g)
    \/ \E g \in Goroutines : SeenAllow(g)
    \/ \E g \in Goroutines : Unlock(g)
    \/ \E g \in Goroutines : Served(g)
    \/ SweepWake
    \/ SweepLock
    \/ SweepScan
    \/ SweepUnlock
    \/ MinuteOnTime

SpecSweep == InitRate /\ [][NextSweep]_vars

\* The middleware chain serving requests, with a token endpoint issuing
\* authentication tokens to ann.
NextPipe ==
    \/ TokensNew(1, TokenTTL, ScopeAuthentication)
    \/ \E g \in PipeReqs : PipeMetrics(g)
    \/ \E g \in PipeReqs : PipeRecoverPanic(g)
    \/ \E g \in PipeReqs, r \in PipeCors : PipeEnableCORS(g, r)
    \/ \E g \in PipeReqs, ip \in IPs, panics \in BOOLEAN : PipeRateLimit(g, ip, panics)
    \/ \E g \in PipeReqs, header \in PipeHeaders, panics \in BOOLEAN :
          PipeAuthenticate(g, header, panics)
    \/ \E g \in PipeReqs, route \in PipeRoutes : PipeRouter(g, route)
    \/ \E g \in PipeReqs, panics \in BOOLEAN : PipeGate(g, panics)
    \/ \E g \in PipeReqs, panics \in BOOLEAN : PipeHandler(g, panics)
    \/ \E g \in PipeReqs : PipeReturn(g)
    \/ \E g \in PipeReqs : PipeSent(g)
    \/ \E g \in PipeReqs : PipeByStatus(g)

SpecPipe == Init /\ [][NextPipe]_vars

\* Calls of registerUserHandler and the background tasks they start.
NextReg ==
    \/ \E h \in Regs, body \in RegBodies, fault \in RegFaults : RegStart(h, body, fault)
    \/ \E h \in Regs : RegBackground(h)
    \/ \E h \in Regs : RegWriteJSON(h)
    \/ \E h \in Regs : RegCheck(h)
    \/ \E h \in Regs, result \in {"ok", "fail", "panic"} : TaskSend(h, result)
    \/ \E h \in Regs : TaskExit(h)

SpecReg == Init /\ [][NextReg]_vars

\* The handler's goroutine is scheduled; nothing bounds the time mailer.Send takes.
FairReg ==
    \A h \in Regs : WF_vars(RegBackground(h) \/ RegWriteJSON(h) \/ RegCheck(h))

SpecRegFair == Init /\ [][NextReg]_vars /\ FairReg

\* The server from start to the return of serve.
NextServe ==
    \/ \E h \in Regs, body \in RegBodies, fault \in RegFaults : RegStart(h, body, fault)
    \/ \E h \in Regs : RegBackground(h)
    \/ \E h \in Regs : RegWriteJSON(h)
    \/ \E h \in Regs : RegCheck(h)
    \/ \E h \in Regs, result \in {"ok", "fail", "panic"} : TaskSend(h, result)
    \/ \E h \in Regs : TaskExit(h)
    \/ ServeSignal
    \/ ServeShutdown
    \/ ServeDrained
    \/ ServeDeadline
    \/ ServeSendErr
    \/ ServeWait
    \/ ServeSendNil

SpecServe == Init /\ [][NextServe]_vars

\* serve's goroutines and the handlers' are scheduled and the deadline of ctx
\* passes; nothing bounds the time a background task takes.
FairServe ==
    /\ FairReg
    /\ WF_vars(ServeShutdown)
    /\ WF_vars(ServeDrained)
    /\ WF_vars(ServeDeadline)
    /\ WF_vars(ServeSendErr)
    /\ WF_vars(ServeWait)
    /\ WF_vars(ServeSendNil)

SpecServeFair == Init /\ [][NextServe]_vars /\ FairServe

(***************************************************************************)
(* The filters of listMoviesHandler.  A string of the sort parameter is a   *)
(* sequence of pieces: "-" is the hyphen character, any other piece a run   *)
(* of other characters.  A query parameter is left out, an integer or text. *)
(***************************************************************************)
Absent == [given |-> FALSE, int |-> FALSE, val |-> 0]
IntParam(n) == [given |-> TRUE, int |-> TRUE, val |-> n]
TextParam == [given |-> TRUE, int |-> FALSE, val |-> 0]

\* readString: the default for a parameter left out or empty.
ReadString(s, defaultValue) == IF s = <<>> THEN defaultValue ELSE s

\* readInt: the default for a parameter left out; the default and an error under
\* the key for one strconv.Atoi rejects.
ReadInt(param, key, defaultValue) ==
    IF ~param.given THEN [val |-> defaultValue, errs |-> {}]
    ELSE IF ~param.int THEN [val |-> defaultValue, errs |-> {key}]
    ELSE [val |-> param.val, errs |-> {}]

TrimPrefix(s, prefix) == IF Len(s) > 0 /\ s[1] = prefix THEN Tail(s) ELSE s
HasPrefix(s, prefix) == Len(s) > 0 /\ s[1] = prefix

\* The safelist listMoviesHandler sets.
SortSafelist ==
    {<<"id">>, <<"title">>, <<"year">>, <<"runtime">>,
     <<"-", "id">>, <<"-", "title">>, <<"-", "year">>, <<"-", "runtime">>}

\* A sortColumn that trusts the validation done before it.
SortColumnUnchecked(f) == [panic |-> FALSE, column |-> TrimPrefix(f.Sort, "-")]

\* Filters.sortColumn: the column of a sort value of the safelist, a panic for any
\* other value.
SortColumn(f) ==
    IF f.Sort \in f.SortSafelist
    THEN [panic |-> FALSE, column |-> TrimPrefix(f.Sort, "-")]
    ELSE [panic |-> TRUE, column |-> <<>>]

\* Filters.sortDirection.
SortDirection(f) == IF HasPrefix(f.Sort, "-") THEN "DESC" ELSE "ASC"

\* data.ValidateFilters: the keys of the checks that fail.
ValidateFilters(f) ==
    {k \in {"page"} : ~(f.Page > 0) \/ ~(f.Page <= 10000000)}
        \cup {k \in {"page_size"} : ~(f.PageSize > 0) \/ ~(f.PageSize <= 100)}
        \cup {k \in {"sort"} : f.Sort \notin f.SortSafelist}

\* MovieModel.GetAll: the ORDER BY of the query it builds with sortColumn and
\* sortDirection, and the error of running it; no query when sortColumn panics.
MovieGetAll(f, err) ==
    LET c == SortColumn(f)
    IN  IF c.panic THEN [panic |-> TRUE, query |-> <<>>, err |-> ErrNil]
        ELSE [panic |-> FALSE, query |-> <<c.column, SortDirection(f)>>, err |-> err]

\* listMoviesHandler on the parameters of a query string: the filters it reads,
\* its response and the query GetAll built; a panic of GetAll leaves the handler.
ListMoviesFiltered(page, pageSize, sort, err) ==
    LET p == ReadInt(page, "page", 1)
        s == ReadInt(pageSize, "page_size", 20)
        f == [Page |-> p.val, PageSize |-> s.val, Sort |-> ReadString(sort, <<"id">>),
              SortSafelist |-> SortSafelist]
        verrs == p.errs \cup s.errs \cup ValidateFilters(f)
        q == MovieGetAll(f, err)
        e == [handler |-> "listMoviesHandler", input |-> f]
    IN  IF verrs # {}
        THEN LET o == ListMoviesOutcome(verrs, ErrNil)
             IN  e @@ [resp |-> o.resp, store |-> o.store, query |-> <<>>, panic |-> FALSE]
        ELSE IF q.panic
        THEN e @@ [resp |-> ServerErrorResponse, store |-> <<>>, query |-> <<>>,
                   panic |-> TRUE]
        ELSE LET o == ListMoviesOutcome(verrs, q.err)
             IN  e @@ [resp |-> o.resp, store |-> o.store, query |-> q.query,
                       panic |-> FALSE]

\* The values of the page and page_size parameters, and of the sort parameter:
\* left out, each value of the safelist, and values outside it.
PageParams == {Absent, TextParam, IntParam(0), IntParam(1), IntParam(10000001)}
PageSizeParams == {Absent, TextParam, IntParam(0), IntParam(20), IntParam(101)}
UnlistedSorts ==
    {<<"rating">>, <<"-", "rating">>, <<"-", "-", "id">>, <<"id", "-">>, <<"-">>,
     <<"id", ";", "drop">>}
SortParams == {<<>>} \cup SortSafelist \cup UnlistedSorts

\* A request to GET /v1/movies.
CallListMoviesFiltered(page, pageSize, sort, err) ==
    /\ Len(olog) < MaxOutcomes
    /\ olog' = Append(olog, ListMoviesFiltered(page, pageSize, sort, err))
    /\ UNCHANGED <<movieVars, userVars, callVars, authVars, rateVars, pipeVars, bgVars>>

\* A call of MovieModel.GetAll by a caller that did not validate the filters.
CallGetAll(sort, err) ==
    /\ Len(olog) < MaxOutcomes
    /\ LET f == [Page |-> 1, PageSize |-> 20, Sort |-> sort,
                 SortSafelist |-> SortSafelist]
           q == MovieGetAll(f, err)
       IN  olog' = Append(olog, [handler |-> "MovieModel.GetAll", input |-> f,
                                 query |-> q.query, panic |-> q.panic])
    /\ UNCHANGED <<movieVars, userVars, callVars, authVars, rateVars, pipeVars, bgVars>>

\* The -cors-trusted-origins lists and the requests enableCORS is called on: every
\* method, Origin and Access-Control-Request-Method of these.
TrustedLists ==
    {<<>>, <<"https://a.example">>, <<"https://a.example", "https://b.example">>, <<"*">>}
Origins ==
    {"", "https://a.example", "https://A.example", "https://a.example/",
     "https://a.example.evil.example", "http://a.example", "https://b.example", "*"}
CorsRequests ==
    {CorsRequest(m, o, a) : m \in {"GET", "OPTIONS", "PUT"}, o \in Origins, a \in {"", "PUT"}}

\* enableCORS called on a request; the trusted origins are those of the first call.
CallEnableCORS(trustedOrigins, r) ==
    /\ Len(olog) < MaxOutcomes
    /\ olog # <<>> => olog[1].trusted = trustedOrigins
    /\ olog' = Append(olog, [handler |-> "enableCORS", trusted |-> trustedOrigins,
                             request |-> r, cors |-> EnableCORS(trustedOrigins, r)])
    /\ UNCHANGED <<movieVars, userVars, callVars, authVars, rateVars, pipeVars, bgVars>>

(***************************************************************************)
(* The result set of MovieModel.GetAll.  The title filter is left empty    *)
(* ($1 = ''), and no run sorts by title: a title is modelled by its        *)
(* length, not by its text.                                                *)
(***************************************************************************)
\* Filters.limit and Filters.offset.
Limit(f) == f.PageSize

\* An offset that counts the pages from 0.
OffsetFromPageZero(f) == f.Page * f.PageSize

Offset(f) == (f.Page - 1) * f.PageSize

\* calculateMetadata; math.Ceil of the quotient is the quotient rounded up.
CalculateMetadata(totalRecords, page, pageSize) ==
    IF totalRecords = 0
    THEN [current_page |-> 0, page_size |-> 0, first_page |-> 0, last_page |-> 0,
          total_records |-> 0]
    ELSE [current_page |-> page, page_size |-> pageSize, first_page |-> 1,
          last_page |-> (totalRecords + pageSize - 1) \div pageSize,
          total_records |-> totalRecords]

\* WHERE ... (genres @> $2 OR $2 = '{}'): the rows holding every genre asked for.
Matching(store, genres) ==
    {id \in DOMAIN store :
        \A k \in 1 .. Len(genres) :
            \E n \in 1 .. Len(store[id].genres) : store[id].genres[n] = genres[k]}

\* The value of a row in the column of the ORDER BY.
Column(store, id, column) ==
    CASE column = <<"id">> -> id
      [] column = <<"year">> -> store[id].year
      [] column = <<"runtime">> -> store[id].runtime
      [] column = <<"title">> -> store[id].title

\* ORDER BY <column> <direction>, id ASC: row a comes before row b.
Before(store, a, b, column, direction) ==
    LET x == Column(store, a, column)
        y == Column(store, b, column)
    IN  \/ IF direction = "DESC" THEN x > y ELSE x < y
        \/ x = y /\ a < b

\* The ids of the rows in the order of the ORDER BY.
OrderBy(store, ids, column, direction) ==
    [k \in 1 .. Cardinality(ids) |->
        CHOOSE a \in ids :
            Cardinality({b \in ids : Before(store, b, a, column, direction)}) = k - 1]

\* MovieModel.GetAll once the query runs: the rows of LIMIT $3 OFFSET $4 with
\* count(*) OVER() in each row, the total scanned from the rows read, and the
\* metadata calculated from it.
GetAllRows(store, genres, f) ==
    LET all == OrderBy(store, Matching(store, genres), SortColumn(f).column,
                       SortDirection(f))
        from == Offset(f) + 1
        to == Min(Offset(f) + Limit(f), Len(all))
        page == IF from > to THEN <<>> ELSE SubSeq(all, from, to)
        totalRecords == IF page = <<>> THEN 0 ELSE Len(all)
    IN  [movies |-> [k \in 1 .. Len(page) |-> RowToMovie(store, page[k])],
         metadata |-> CalculateMetadata(totalRecords, f.Page, f.PageSize)]

\* A movies table of n rows; the years of most rows tie.
PageStore(n) ==
    [id \in 1 .. n |->
        [created_at |-> 0, title |-> 5, year |-> IF id % 3 = 0 THEN 2001 ELSE 1979,
         runtime |-> 90 + ((id * 7) % 4),
         genres |-> IF id % 2 = 0 THEN <<"horror">> ELSE <<"horror", "drama">>,
         version |-> 1]]

\* A call of GetAll with valid filters on the table as it is.
CallGetAllRows(sort, page, pageSize, genres) ==
    /\ Len(olog) < MaxOutcomes
    /\ LET f == [Page |-> page, PageSize |-> pageSize, Sort |-> sort,
                 SortSafelist |-> SortSafelist]
           got == GetAllRows(movies, genres, f)
       IN  olog' = Append(olog, [handler |-> "MovieModel.GetAll", input |-> f,
                                 genres |-> genres, movies |-> got.movies,
                                 metadata |-> got.metadata])
    /\ UNCHANGED <<movieVars, userVars, callVars, authVars, rateVars, pipeVars, bgVars>>

(***************************************************************************)
(* validator.Validator: the Errors map of one validator made by New, and    *)
(* the calls made on it; each entry of the log holds the map after the call. *)
(***************************************************************************)
\* An AddError that writes the message whether or not the key is there.
AddErrorOverwrites(errors, key, message) == (key :> message) @@ errors

\* Validator.AddError.
AddError(errors, key, message) ==
    IF key \in DOMAIN errors THEN errors ELSE (key :> message) @@ errors

\* Validator.Check.
Check(errors, ok, key, message) ==
    IF ~ok THEN AddError(errors, key, message) ELSE errors

\* Validator.Valid.
Valid(errors) == Cardinality(DOMAIN errors) = 0

\* v.Errors after the calls made so far; New makes the map empty.
Errors == IF olog = <<>> THEN <<>> ELSE olog[Len(olog)].errors

CallCheck(ok, key, message) ==
    /\ Len(olog) < MaxChecks
    /\ olog' = Append(olog, [handler |-> "Check", ok |-> ok, key |-> key,
                             message |-> message,
                             errors |-> Check(Errors, ok, key, message)])
    /\ UNCHANGED <<movieVars, userVars, callVars, authVars, rateVars, pipeVars, bgVars>>

CallAddError(key, message) ==
    /\ Len(olog) < MaxChecks
    /\ olog' = Append(olog, [handler |-> "AddError", ok |-> FALSE, key |-> key,
                             message |-> message,
                             errors |-> AddError(Errors, key, message)])
    /\ UNCHANGED <<movieVars, userVars, callVars, authVars, rateVars, pipeVars, bgVars>>

(***************************************************************************)
(* Mailer.Send: the templates are parsed and executed, then the message is *)
(* handed to DialAndSend in a loop.  The log holds the result of the       *)
(* templates, of each DialAndSend and the error Send returns.  DialAndSend *)
(* returns: the dialer is made with a timeout of five seconds.             *)
(***************************************************************************)
DialErrs ==
    {"dial tcp: i/o timeout", "535 authentication failed", "connection refused", "EOF"}

\* The results of the calls of DialAndSend made so far.
Attempts == SelectSeq(olog, LAMBDA e : e.handler = "DialAndSend")

MailReturned == \E k \in 1 .. Len(olog) : olog[k].handler = "return"

\* A loop that goes on after an attempt that succeeded.
SendLoopIgnoresSuccess(attempts) ==
    IF Len(attempts) + 1 <= 3 THEN "attempt" ELSE "return err"

\* The loop for i := 1; i <= 3; i++ after the attempts made: it returns nil after
\* an attempt that succeeded, makes attempt i, or leaves the loop and returns err.
SendLoop(attempts) ==
    IF Len(attempts) > 0 /\ attempts[Len(attempts)].err = ErrNil THEN "return nil"
    ELSE IF Len(attempts) + 1 <= 3 THEN "attempt"
    ELSE "return err"

\* ParseFS and the three ExecuteTemplate calls; Send returns the error of the first
\* that fails.
MailTemplates(ok) ==
    /\ olog = <<>>
    /\ olog' = IF ok THEN <<[handler |-> "templates", err |-> ErrNil]>>
               ELSE <<[handler |-> "templates", err |-> "template error"],
                      [handler |-> "return", err |-> "template error"]>>
    /\ UNCHANGED <<movieVars, userVars, callVars, authVars, rateVars, pipeVars, bgVars>>

\* One DialAndSend, and the sleep of half a second after one that failed.
MailDialAndSend(err) ==
    /\ olog # <<>> /\ ~MailReturned
    /\ SendLoop(Attempts) = "attempt"
    /\ olog' = Append(olog, [handler |-> "DialAndSend", err |-> err])
    /\ UNCHANGED <<movieVars, userVars, callVars, authVars, rateVars, pipeVars, bgVars>>

\* Send returns: nil from inside the loop, or err after it.
MailReturn ==
    /\ olog # <<>> /\ ~MailReturned
    /\ SendLoop(Attempts) # "attempt"
    /\ olog' = Append(olog, [handler |-> "return",
                             err |-> IF SendLoop(Attempts) = "return nil" THEN ErrNil
                                     ELSE Attempts[Len(Attempts)].err])
    /\ UNCHANGED <<movieVars, userVars, callVars, authVars, rateVars, pipeVars, bgVars>>

\* The handlers called on every outcome of their store calls.
NextOutcome ==
    \/ \E idOk \in BOOLEAN, get \in GetErrs : CallShowMovie(idOk, get)
    \/ \E idOk \in BOOLEAN, del \in GetErrs : CallDeleteMovie(idOk, del)
    \/ \E verrs \in {{}, {"sort"}}, getAll \in ExecErrs : CallListMovies(verrs, getAll)
    \/ \E bodyOk \in BOOLEAN, verrs \in {{}, {"title"}}, ins \in ExecErrs :
          CallCreateMovie(bodyOk, verrs, ins)
    \/ \E idOk, bodyOk \in BOOLEAN, verrs \in {{}, {"year"}}, get \in GetErrs,
          upd \in UpdateErrs :
          CallUpdateMovie(idOk, get, bodyOk, verrs, upd)
    \/ \E bodyOk, hashOk \in BOOLEAN, verrs \in {{}, {"password"}}, ins \in UserInsertErrs,
          add, new \in ExecErrs :
          CallRegisterUser(bodyOk, hashOk, verrs, ins, add, new)
    \/ \E bodyOk \in BOOLEAN, verrs \in {{}, {"token"}}, get \in GetErrs,
          upd \in UpdateErrs, del \in ExecErrs :
          CallActivateUser(bodyOk, verrs, get, upd, del)

SpecOutcome == Init /\ [][NextOutcome]_vars

\* GET /v1/movies on every combination of its parameters, and GetAll called
\* directly.
NextFilters ==
    \/ \E page \in PageParams, pageSize \in PageSizeParams, sort \in SortParams,
          err \in ExecErrs :
          CallListMoviesFiltered(page, pageSize, sort, err)
    \/ \E sort \in SortParams \ {<<>>}, err \in ExecErrs : CallGetAll(sort, err)

SpecFilters == Init /\ [][NextFilters]_vars

\* A user as registerUserHandler left it, not activated, and the tokens issued
\* since: two activation tokens and an authentication token of that user, and an
\* activation token of another user.
NewUser ==
    [name |-> "cat", email |-> "cat@x.com", password_hash |-> "h3", activated |-> FALSE,
     version |-> 1]
SeedTokens ==
    {GenerateToken(3, ActivationTTL, ScopeActivation, 0, 1),
     GenerateToken(3, ActivationTTL, ScopeActivation, 0, 2),
     GenerateToken(3, TokenTTL, ScopeAuthentication, 0, 3),
     GenerateToken(2, ActivationTTL, ScopeActivation, 0, 4)}

ActSlots == 1 .. MaxActivations

InitActivate ==
    /\ movies = SeedMovies
    /\ nextId = 2
    /\ mreq = [r \in Reqs |-> IdleReq]
    /\ users = SeedUsers @@ (3 :> NewUser)
    /\ nextUserId = 4
    /\ snap = [c \in Callers |-> NoSnap]
    /\ updLog = <<>>
    /\ perms = SeedPerms
    /\ tokens = {[hash |-> t.hash, user_id |-> t.user_id, expiry |-> t.expiry,
                  scope |-> t.scope] : t \in SeedTokens}
    /\ now = 0
    /\ issued = {[plaintext |-> t.plaintext, user |-> t.user_id, scope |-> t.scope,
                  expiry |-> t.expiry, revoked |-> FALSE] : t \in SeedTokens}
    /\ areq = [r \in ActSlots |-> NewReq]
    /\ cfg = StartConfig
    /\ clock = 0
    /\ clients = <<>>
    /\ mu = Free
    /\ rpc = [g \in Goroutines |-> IdleGo]
    /\ sweep = [pc |-> "sleep", wake |-> SweepPeriod]
    /\ rlog = [ip \in IPs |-> NoDecisions]
    /\ preq = [g \in PipeReqs |-> IdlePipe]
    /\ received = 0
    /\ sent = 0
    /\ byStatus = [c \in Statuses |-> 0]
    /\ finished = <<>>
    /\ crashed = FALSE
    /\ hreq = [h \in Regs |-> IdleReg]
    /\ task = [h \in Regs |-> NoTask]
    /\ wg = 0
    /\ srv = [go |-> "quit", main |-> "ListenAndServe", accepting |-> TRUE]
    /\ olog = <<>>

\* Requests to PUT /v1/users/activated, sent without an Authorization header, each
\* handled by its own goroutine; no slot is used twice.
NextActivate ==
    \/ \E r \in ActSlots : Authenticate(r, <<>>)
    \/ \E r \in ActSlots, plaintext \in Plains : ActivateLookup(r, plaintext)
    \/ \E r \in ActSlots : ActivateUpdate(r)
    \/ \E r \in ActSlots : ActivateDelete(r)
    \/ Tick

SpecActivate == InitActivate /\ [][NextActivate]_vars

\* One call of Mailer.Send.
NextMail ==
    \/ \E ok \in BOOLEAN : MailTemplates(ok)
    \/ \E err \in DialErrs \cup {ErrNil} : MailDialAndSend(err)
    \/ MailReturn

\* The goroutine that runs Send takes its next step: nothing in Send waits for
\* another goroutine.
SpecMailFair == Init /\ [][NextMail]_vars /\ WF_vars(NextMail)

\* Any sequence of Check and AddError calls on one validator.
NextValidator ==
    \E key \in {"title", "year"}, message \in {"must be provided", "must be valid"} :
        \/ \E ok \in BOOLEAN : CallCheck(ok, key, message)
        \/ CallAddError(key, message)

SpecValidator == Init /\ [][NextValidator]_vars

\* The state after construction over a movies table of up to MaxRows rows.
InitPage ==
    /\ movies \in {PageStore(n) : n \in 0 .. MaxRows}
    /\ nextId = Cardinality(DOMAIN movies) + 1
    /\ mreq = [r \in Reqs |-> IdleReq]
    /\ users = SeedUsers
    /\ nextUserId = 3
    /\ snap = [c \in Callers |-> NoSnap]
    /\ updLog = <<>>
    /\ perms = SeedPerms
    /\ tokens = {}
    /\ now = 0
    /\ issued = {}
    /\ areq = [r \in AReqs |-> NewReq]
    /\ cfg = StartConfig
    /\ clock = 0
    /\ clients = <<>>
    /\ mu = Free
    /\ rpc = [g \in Goroutines |-> IdleGo]
    /\ sweep = [pc |-> "sleep", wake |-> SweepPeriod]
    /\ rlog = [ip \in IPs |-> NoDecisions]
    /\ preq = [g \in PipeReqs |-> IdlePipe]
    /\ received = 0
    /\ sent = 0
    /\ byStatus = [c \in Statuses |-> 0]
    /\ finished = <<>>
    /\ crashed = FALSE
    /\ hreq = [h \in Regs |-> IdleReg]
    /\ task = [h \in Regs |-> NoTask]
    /\ wg = 0
    /\ srv = [go |-> "quit", main |-> "ListenAndServe", accepting |-> TRUE]
    /\ olog = <<>>

\* GetAll sorted by id, year or runtime, on pages 1 to 3 of sizes 1, 2 and 20, with
\* and without a genre asked for.
NextPage ==
    \E sort \in {<<"id">>, <<"year">>, <<"-", "year">>, <<"-", "runtime">>},
       page \in 1 .. 3, pageSize \in {1, 2, 20}, genres \in {<<>>, <<"drama">>} :
        CallGetAllRows(sort, page, pageSize, genres)

SpecPage == InitPage /\ [][NextPage]_vars

\* enableCORS on every request, under each list of trusted origins.
NextCORS ==
    \E trustedOrigins \in TrustedLists, r \in CorsRequests :
        CallEnableCORS(trustedOrigins, r)

SpecCORS == Init /\ [][NextCORS]_vars

\* sync.Mutex hands the lock to a goroutine that has waited for it (starvation
\* mode), and a goroutine that can run does: a waiting Lock is taken strongly
\* fairly, the steps under the lock weakly fairly.
FairRate ==
    /\ \A g \in Goroutines :
          /\ SF_vars(Lock(g))
          /\ WF_vars(Lookup(g))
          /\ WF_vars(SeenAllow(g))
          /\ WF_vars(Unlock(g))
    /\ SF_vars(SweepLock)
    /\ WF_vars(SweepScan)
    /\ WF_vars(SweepUnlock)

SpecRateFair == Init /\ [][NextRate]_vars /\ FairRate

(***************************************************************************)
(* Claims about the movie store and its handlers (SpecMovies).             *)
(***************************************************************************)
\* Two PATCH requests that read the same version of the same movie and both
\* called Update.
Raced(r1, r2) ==
    /\ r1 # r2
    /\ mreq[r1].route = "PATCH" /\ mreq[r2].route = "PATCH"
    /\ mreq[r1].updated /\ mreq[r2].updated
    /\ mreq[r1].id = mreq[r2].id
    /\ mreq[r1].seen = mreq[r2].seen

\* A third request that wrote or deleted the same movie at the version the two read.
OtherWriter(r1, r2) ==
    \E r3 \in Reqs \ {r1, r2} :
        /\ mreq[r3].changed
        /\ mreq[r3].id = mreq[r1].id
        /\ mreq[r3].seen = mreq[r1].seen

\* What a request that called Update did: on 200 the stored row is the request's
\* record at the version it read plus one, on 409 the table is as it was.
UpdateOutcome(r) ==
    /\ mreq[r].status \in {200, 409}
    /\ mreq[r].status = 200 =>
          /\ mreq[r].changed
          /\ mreq[r].post = mreq[r].movie
          /\ mreq[r].post.version = mreq[r].seen + 1
    /\ mreq[r].status = 409 => ~mreq[r].changed

\* C1: of two PATCH requests on one movie whose Gets read the same version v, never
\* both Updates succeed; when no third request wrote the movie at v, exactly one
\* succeeds with 200 and stores its own fields at version v + 1, and the other answers
\* 409 and leaves the table as it was.
C1_OneWinnerPerVersion ==
    \A r1, r2 \in Reqs :
        Raced(r1, r2) =>
            /\ UpdateOutcome(r1) /\ UpdateOutcome(r2)
            /\ ~(mreq[r1].status = 200 /\ mreq[r2].status = 200)
            /\ ~OtherWriter(r1, r2) => (mreq[r1].status = 200 \/ mreq[r2].status = 200)

\* Two racing PATCH requests with different fields, one answered 200 and one 409.
C1_Witness ==
    \E r1, r2 \in Reqs :
        /\ Raced(r1, r2)
        /\ mreq[r1].status = 200 /\ mreq[r2].status = 409
        /\ mreq[r1].movie.title # mreq[r2].movie.title
        /\ mreq[r1].id \in DOMAIN movies
        /\ movies[mreq[r1].id].title = mreq[r1].movie.title
        /\ movies[mreq[r1].id].version = mreq[r1].seen + 1

\* One step of the movies table: rows keep or increment their version, new rows
\* take a fresh id at version 1, an Update answered 200 increments the version of
\* its row by one and any other answer of updateMovieHandler changes nothing.
VersionStep ==
    /\ \A id \in DOMAIN movies : id < nextId
    /\ nextId' >= nextId
    /\ \A id \in DOMAIN movies \cap DOMAIN movies' :
          movies'[id].version \in {movies[id].version, movies[id].version + 1}
    /\ \A id \in DOMAIN movies' \ DOMAIN movies :
          id >= nextId /\ id < nextId' /\ movies'[id].version = 1
    /\ \A r \in Reqs :
          (mreq[r].pc = "loaded" /\ mreq'[r].pc = "done") =>
              IF mreq'[r].status = 200
              THEN /\ mreq[r].id \in DOMAIN movies \cap DOMAIN movies'
                   /\ movies'[mreq[r].id].version = movies[mreq[r].id].version + 1
              ELSE movies' = movies

\* C3: across Insert, Update and Delete a movie's stored version never decreases
\* and no id comes back at a lower version: a successful Update adds exactly 1, a
\* failed one leaves the table unchanged.
C3_VersionNeverDecreases == [][VersionStep]_vars

\* A movie updated twice (version 3) while another Update on it failed.
C3_Witness ==
    \E r1, r2 \in Reqs :
        /\ mreq[r1].updated /\ mreq[r1].status = 200 /\ mreq[r1].post.version = 3
        /\ mreq[r2].updated /\ mreq[r2].status = 409
        /\ mreq[r1].id = mreq[r2].id

(***************************************************************************)
(* Claims about Update called again with a stale version (SpecUpdate).     *)
(***************************************************************************)
\* Two Update calls, the earlier one first, on the same record with the same
\* expected version.
SameExpected(i, j) ==
    /\ i < j
    /\ updLog[i].kind = updLog[j].kind
    /\ updLog[i].id = updLog[j].id
    /\ updLog[i].expected = updLog[j].expected

\* C2: when an Update call succeeds, every later Update call on that record with
\* the same expected version, through MovieModel.Update or UserModel.Update, returns
\* ErrEditConflict and leaves the table as it found it: the row keeps the version the
\* first call gave it, one above the expected one.
C2_StaleUpdateConflicts ==
    \A i, j \in DOMAIN updLog :
        (SameExpected(i, j) /\ updLog[i].err = ErrNil) =>
            /\ updLog[i].after = updLog[i].expected + 1
            /\ updLog[i].wrote
            /\ updLog[j].err = ErrEditConflict
            /\ updLog[j].unchanged
            /\ (j = i + 1 => updLog[j].after = updLog[i].after)

\* A movie Update and a user Update each called twice in a row with one expected
\* version: the first succeeded, the second did not.
C2_Witness ==
    \A kind \in {"movie", "user"} :
        \E i \in DOMAIN updLog :
            /\ i + 1 \in DOMAIN updLog
            /\ SameExpected(i, i + 1)
            /\ updLog[i].kind = kind
            /\ updLog[i].err = ErrNil
            /\ updLog[i + 1].err = ErrEditConflict

(***************************************************************************)
(* Claims about authentication, permissions and tokens, checked under      *)
(* SpecAuth.                                                               *)
(***************************************************************************)
\* The tokens issued with a plaintext and a scope that are neither expired nor
\* revoked.
Live(plaintext, scope) ==
    {t \in issued : /\ t.plaintext = plaintext
                    /\ t.scope = scope
                    /\ ~t.revoked
                    /\ now < t.expiry}

Holds(user, code) == user.id \in DOMAIN perms /\ code \in perms[user.id]

\* What authenticate has to do with the request it has just decided.
AuthenticateAsSpecified(q) ==
    LET h == q.header
    IN  CASE h = <<>> ->
                q.pc = "routed" /\ q.user = AnonymousUser /\ ~q.lookup
          [] h # <<>> /\ (Len(h) # 2 \/ h[1] # "Bearer") ->
                q.pc = "done" /\ q.status = 401 /\ ~q.lookup
          [] Len(h) = 2 /\ h[1] = "Bearer" /\ h[2].len # 26 ->
                q.pc = "done" /\ q.status = 401 /\ ~q.lookup
          [] Len(h) = 2 /\ h[1] = "Bearer" /\ h[2].len = 26
                /\ Live(h[2], ScopeAuthentication) = {} ->
                q.pc = "done" /\ q.status = 401
          [] OTHER ->
                /\ q.pc = "routed"
                /\ \E t \in Live(h[2], ScopeAuthentication) :
                      q.user = RowToUser(users, t.user)

\* C4: authenticate lets a request without an Authorization header through as the
\* anonymous user; answers 401 without calling the next handler for a header that
\* is not "Bearer <token>"; answers 401 without a store lookup for a token that is
\* not 26 characters; answers 401 for a 26-character token that no unexpired
\* authentication token matches; and calls the next handler with the owning user
\* for a valid token.
C4_AuthenticateDecides ==
    [][\A r \in AReqs :
          (areq[r].pc = "new" /\ areq'[r].pc # "new") => AuthenticateAsSpecified(areq'[r])]_vars

\* A request carrying a valid token is with the router as the token's user, after
\* the lookup.
C4_Witness ==
    \E r \in AReqs :
        /\ areq[r].pc = "routed"
        /\ Len(areq[r].header) = 2
        /\ areq[r].lookup
        /\ areq[r].user.id = 1
        /\ Live(areq[r].header[2], ScopeAuthentication) # {}

\* C5: a request that reached requirePermission(code) is answered 401 when its user
\* is anonymous, else 403 when the user is not activated, else 403 when the user
\* does not hold the code, the handler not run in any of these cases; the
\* permissions are loaded only for authenticated, activated users.
C5_GateAsSpecified ==
    \A r \in AReqs :
        LET q == areq[r]
        IN  (q.pc = "done" /\ q.gated) =>
               /\ q.loaded => (~IsAnonymous(q.user) /\ q.user.activated)
               /\ IF IsAnonymous(q.user) THEN q.status = 401 /\ ~q.entered
                  ELSE IF ~q.user.activated THEN q.status = 403 /\ ~q.entered
                  ELSE IF ~Holds(q.user, RouteCode(q.route)) THEN q.status = 403 /\ ~q.entered
                  ELSE TRUE

\* What a step may do to the movies: a handler of a movie route runs only for a
\* user holding the route's code, and the table changes only in such a run for a
\* route that takes movies:write.
PermittedStep ==
    /\ \A r \in AReqs :
          (~areq[r].entered /\ areq'[r].entered) =>
              Holds(areq'[r].user, RouteCode(areq'[r].route))
    /\ (movies' # movies \/ nextId' # nextId) =>
          \E r \in AReqs :
              /\ ~areq[r].entered /\ areq'[r].entered
              /\ RouteCode(areq'[r].route) = "movies:write"
              /\ Holds(areq'[r].user, "movies:write")

\* C6: no request reads movies unless its user holds movies:read, and none inserts,
\* updates or deletes a movie unless its user holds movies:write; a user holding
\* only movies:read never changes the movie store.
C6_MoviesNeedPermission == [][PermittedStep]_vars

\* The user registered in the run, activated and holding only the movies:read of
\* its registration, asked for a write and was answered, the handler not run and
\* the movies as they were.
C6_Witness ==
    \E r \in AReqs :
        /\ areq[r].pc = "done"
        /\ areq[r].gated
        /\ RouteCode(areq[r].route) = "movies:write"
        /\ areq[r].user.id = 3
        /\ areq[r].user.activated
        /\ perms[3] = {"movies:read"}
        /\ ~areq[r].entered
        /\ movies = SeedMovies

\* C7: a token made by TokenModel.New resolves through GetForToken, with its scope
\* and plaintext, to its user at every time before its expiry while it is not
\* revoked; once DeleteAllForUser ran for its scope and user, or the time reached
\* its expiry, GetForToken returns ErrRecordNotFound, in every later state.
C7_TokenRoundTrip ==
    \A t \in issued :
        LET got == GetForToken(tokens, users, t.scope, t.plaintext, now)
        IN  IF now < t.expiry /\ ~t.revoked
            THEN got.err = ErrNil /\ got.user = RowToUser(users, t.user)
            ELSE got.err = ErrRecordNotFound

\* One token is revoked before its expiry, another is past its expiry.
C7_Witness ==
    \E t1, t2 \in issued :
        /\ t1.revoked /\ now < t1.expiry
        /\ ~t2.revoked /\ now >= t2.expiry

\* C8: GetForToken(s, p) resolves only a token issued with scope s; a request
\* presenting a token issued with the activation scope is answered 401 by
\* authenticate; the activation endpoint goes on only with a token issued with the
\* activation scope.
C8_ScopesIsolated ==
    /\ \A s \in Scopes, p \in Plains :
          LET got == GetForToken(tokens, users, s, p, now)
          IN  got.err = ErrNil =>
                 \E t \in issued : t.plaintext = p /\ t.scope = s /\ t.user = got.user.id
    /\ \A r \in AReqs :
          LET q == areq[r]
          IN  /\ (/\ Len(q.header) = 2
                  /\ \E t \in issued : t.plaintext = q.header[2] /\ t.scope = ScopeActivation)
                    => (q.pc = "done" /\ q.status = 401)
              /\ q.pc \in {"activating", "revoking"} =>
                    /\ \E t \in issued : t.plaintext = q.plaintext /\ t.scope = ScopeActivation
                    /\ \A t \in issued : t.plaintext = q.plaintext => t.scope # ScopeAuthentication

\* A live activation token was presented as a bearer token and answered 401, and a
\* live authentication token was refused by the activation endpoint.
C8_Witness ==
    /\ \E r \in AReqs :
          /\ areq[r].pc = "done"
          /\ areq[r].route = "PUT /v1/users/activated"
          /\ areq[r].status = 422
          /\ Live(areq[r].plaintext, ScopeAuthentication) # {}
    /\ \E t \in issued : t.scope = ScopeActivation /\ ~t.revoked /\ now < t.expiry

(***************************************************************************)
(* Claims about the rate limiter, checked under SpecRate and SpecRateFair. *)
(***************************************************************************)
\* C9: with the limiter enabled, of the first burst + 1 requests of an ip that
\* Allow decides before a token is refilled (less than one refill period after the
\* first), the first burst are admitted and the next one is refused, whatever the
\* other ips do.
C9_BurstAdmitsN ==
    cfg.enabled =>
        \A ip \in IPs :
            \A k \in DOMAIN rlog[ip].decided :
                (k <= cfg.burst + 1 /\ rlog[ip].decided[k].early) =>
                    (rlog[ip].decided[k].ok <=> k <= cfg.burst)

\* Where a request is between its mu.Lock() and its mu.Unlock().
Critical(g) == rpc[g].pc \in {"lookup", "allow", "unlock"}

\* The mutex is held exactly by the goroutine between its Lock and its Unlock: no
\* two are there at once, and a request at the 429 response or in the next handler
\* does not hold it.
MutexDiscipline ==
    /\ \A g \in Goroutines : Critical(g) <=> mu = g
    /\ sweep.pc \in {"scan", "unlock"} <=> mu = Sweeper

\* The map and its lastSeen fields change only in a step of the goroutine that
\* holds the mutex.
MapStep ==
    clients' # clients =>
        /\ mu # Free
        /\ mu' = mu
        /\ mu \in Goroutines => rpc'[mu] # rpc[mu]
        /\ mu = Sweeper => sweep' # sweep

\* C10: the map and lastSeen are touched only under the mutex, so the sweep and a
\* request's lookup, insert and Allow exclude each other; the mutex is released on
\* the admitted path and on the 429 path before the response or the next handler;
\* no goroutine waits for the mutex forever; and requests that are past the limiter
\* run without it.
C10_MutexGuardsClients ==
    /\ []MutexDiscipline
    /\ [][MapStep]_vars
    /\ \A g \in Goroutines : (rpc[g].pc = "lock") ~> (rpc[g].pc = "lookup")
    /\ (sweep.pc = "lock") ~> (sweep.pc = "scan")

\* An admitted request is in the next handler and a refused one at its 429 while
\* the sweep scans the map under the mutex.
C10_Witness ==
    /\ sweep.pc = "scan"
    /\ \E g1, g2 \in Goroutines : rpc[g1].pc = "next" /\ rpc[g2].pc = "respond429"

\* What a scan of the sweep does to the map: a client last seen more than three
\* minutes before goes, every other client stays with its limiter and lastSeen.
ScanExact ==
    (sweep.pc = "scan" /\ sweep'.pc = "unlock") =>
        /\ \A ip \in DOMAIN clients :
              IF clock - clients[ip].lastSeen > 3
              THEN ip \notin DOMAIN clients'
              ELSE ip \in DOMAIN clients' /\ clients'[ip] = clients[ip]
        /\ DOMAIN clients' \subseteq DOMAIN clients

\* No client in the map was last seen more than three minutes and a sweep period
\* ago.
IdleBounded ==
    \A ip \in DOMAIN clients : clock - clients[ip].lastSeen <= 3 + SweepPeriod

\* C11: a sweep removes exactly the clients whose lastSeen is more than 3 minutes
\* old; a client seen within the last 3 minutes, admitted or refused, keeps its
\* entry and its bucket; and with the sweep on time no client stays in the map more
\* than 3 minutes and one sweep period after it was last seen.
C11_SweepRemovesIdle == [][ScanExact]_vars /\ []IdleBounded

\* A sweep has just removed one client, idle for four minutes, and kept another
\* that was refused within the last three minutes, together with its bucket.
C11_Witness ==
    /\ sweep.pc = "unlock"
    /\ \E gone, kept \in IPs :
          /\ gone \notin DOMAIN clients
          /\ rlog[gone].decided # <<>>
          /\ kept \in DOMAIN clients
          /\ clock - clients[kept].lastSeen <= 3
          /\ Len(rlog[kept].decided) >= 2
          /\ ~rlog[kept].decided[Len(rlog[kept].decided)].ok

\* The layers in the order routes() nests them; a route registered bare has no
\* gate between the router and its handler.
ChainOrder ==
    <<"metrics", "recoverPanic", "enableCORS", "rateLimit", "authenticate", "router",
      "gate", "handler">>
ChainUngated ==
    <<"metrics", "recoverPanic", "enableCORS", "rateLimit", "authenticate", "router",
      "handler">>

Ran(q, layer) == \E i \in 1 .. Len(q.trail) : q.trail[i] = layer

\* The layers that ran for a request are the first layers of the chain, in order.
InChainOrder(q) ==
    \/ q.trail = SubSeq(ChainOrder, 1, Len(q.trail))
    \/ q.trail = SubSeq(ChainUngated, 1, Len(q.trail))

\* The layer that answered a request was the last to run for it.
ShortCircuit(q) ==
    /\ q.by \in {"enableCORS", "rateLimit", "authenticate", "gate", "handler"} =>
          q.trail[Len(q.trail)] = q.by
    /\ q.status = 429 =>
          /\ q.by = "rateLimit"
          /\ ~q.lookup
          /\ ~Ran(q, "authenticate")
          /\ ~Ran(q, "handler")
    /\ q.by = "authenticate" =>
          /\ ~Ran(q, "router")
          /\ ~Ran(q, "gate")
          /\ ~Ran(q, "handler")

\* C12: every request runs the layers in the order metrics, recoverPanic,
\* enableCORS, rateLimit, authenticate, router, gate, handler, and once a layer has
\* answered it no inner layer runs: a request answered 429 by rateLimit makes no
\* token lookup and reaches no handler, one answered by authenticate reaches no
\* route handler.
C12_LayersInOrder ==
    \A g \in PipeReqs : InChainOrder(preq[g]) /\ ShortCircuit(preq[g])

\* One request was answered 429 by rateLimit while another, which passed it, was
\* answered 401 by authenticate after a token lookup, and a third has been through
\* the whole chain to the healthcheck handler.
C12_Witness ==
    /\ \E g, h \in PipeReqs :
          /\ preq[g].by = "rateLimit" /\ preq[g].status = 429
          /\ preq[h].by = "authenticate" /\ preq[h].status = 401 /\ preq[h].lookup
    /\ \E i \in 1 .. Len(finished) : finished[i].status = 200 /\ ~finished[i].panic

\* C13: a panic below recoverPanic ends in a 500 response with Connection: close for
\* its request, and the process does not die of it.
C13_PanicBecomes500 ==
    /\ ~crashed
    /\ \A g \in PipeReqs :
          (preq[g].panic /\ preq[g].pc \in {"sent", "byStatus"}) =>
              preq[g].status = 500 /\ preq[g].close
    /\ \A i \in 1 .. Len(finished) :
          finished[i].panic => finished[i].status = 500 /\ finished[i].close

\* A request whose handler panicked was answered 500, and a request received after
\* it was served 200.
C13_Witness ==
    \E i, j \in 1 .. Len(finished) :
        /\ i < j
        /\ finished[i].panic /\ finished[i].status = 500 /\ finished[i].close
        /\ ~finished[j].panic /\ finished[j].status = 200

RECURSIVE SumOver(_, _)
SumOver(f, S) ==
    IF S = {} THEN 0
    ELSE LET c == CHOOSE x \in S : TRUE IN f[c] + SumOver(f, S \ {c})

\* The requests metrics has received and not yet counted as sent.
InFlight == {g \in PipeReqs : preq[g].pc \notin {"idle", "byStatus"}}

\* C14: in every state total_responses_sent <= total_requests_received, their
\* difference is the number of requests in flight, and the counts by status add up
\* to total_responses_sent.
C14_CountersConsistent ==
    /\ sent <= received
    /\ received - sent = Cardinality(InFlight)
    /\ SumOver(byStatus, Statuses) = sent

\* C15: a registration that passes every statement answers 202 with the user's
\* activated flag false and has started exactly one background task; one that
\* answers 400, 422 or 500 has started none.
C15_OneTaskPerRegistration ==
    \A h \in Regs :
        /\ hreq[h].spawned <= 1
        /\ (hreq[h].spawned = 1) = (task[h].pc # "none")
        /\ hreq[h].status \in {0, 202, 400, 422, 500}
        /\ hreq[h].status = 202 =>
              /\ hreq[h].spawned = 1
              /\ hreq[h].body[1] = [id |-> hreq[h].user, activated |-> FALSE]
        /\ hreq[h].status \in {400, 422, 500} =>
              /\ hreq[h].pc = "done"
              /\ hreq[h].spawned = 0
        /\ (hreq[h].pc = "done" /\ hreq[h].user # 0) => hreq[h].status = 202

\* One registration was answered 202 and started its task, another of the same
\* email was answered 422 and a failed one 500, and started none.
C15_Witness ==
    \E h1, h2 \in Regs :
        /\ hreq[h1].pc = "done" /\ hreq[h1].status = 202 /\ hreq[h1].spawned = 1
        /\ hreq[h2].pc = "done" /\ hreq[h2].status \in {422, 500} /\ hreq[h2].spawned = 0

\* C16: whatever the background task does, the handler of a registration that
\* started one never calls serverErrorResponse, and its response is the 202 with
\* the user document and nothing else.
C16_SendFailureOnlyLogged ==
    \A h \in Regs :
        /\ ~hreq[h].errorPath
        /\ (hreq[h].pc = "done" /\ hreq[h].spawned = 1) =>
              /\ hreq[h].status = 202
              /\ hreq[h].body = <<[id |-> hreq[h].user, activated |-> FALSE]>>

\* C17: a handler that has reached app.background returns its 202, whether or not
\* the task it starts ever finishes.
C17_NeverWaits ==
    \A h \in Regs :
        (hreq[h].pc = "background") ~> (hreq[h].pc = "done" /\ hreq[h].status = 202)

\* The handler has returned its 202 while the task is still in mailer.Send.
C17_Witness ==
    \E h \in Regs :
        /\ hreq[h].pc = "done" /\ hreq[h].status = 202
        /\ task[h].pc = "fn"

\* The background tasks that were started and have not run wg.Done.
Unfinished == {h \in Regs : task[h].pc \in {"fn", "deferred"}}

\* C18: serve returns nil only when every background task has finished, and once
\* Shutdown has returned nil no handler is left to start one: the WaitGroup counts
\* every unfinished task when Wait begins.
C18_WaitsForTasks ==
    /\ srv.main = "returned nil" => (Unfinished = {} /\ wg = 0)
    /\ (srv.go \in {"Wait", "send nil", "end"} /\ srv.main # "returned err") =>
          /\ RegInFlight = {}
          /\ wg = Cardinality(Unfinished)
          /\ \A h \in Regs : hreq[h].spawned = 1 => task[h].pc # "none"

\* serve has returned nil after a registration's task ran to its end during the
\* shutdown.
C18_Witness ==
    /\ srv.main = "returned nil"
    /\ \E h \in Regs : task[h].pc = "done" /\ hreq[h].status = 202

C20_TaskPanicRecovered ==
    /\ ~crashed
    /\ wg = Cardinality(Unfinished)
    /\ \A h \in Regs : (task[h].pc = "done" /\ task[h].panic) => task[h].logged
    /\ (srv.go = "Wait" /\ \A h \in Regs : task[h].pc \in {"none", "done"}) => wg = 0

\* A task panicked, and serve has since waited for the tasks and returned nil.
C20_Witness ==
    /\ srv.main = "returned nil"
    /\ \E h \in Regs : task[h].pc = "done" /\ task[h].panic /\ task[h].logged

\* The calls of registerUserHandler that sent an email and have answered, with a
\* body that validates and no statement failing for a reason of its own.
Registered(email) ==
    {h \in Regs : /\ hreq[h].pc \notin {"idle"}
                  /\ hreq[h].input.email = email
                  /\ hreq[h].input.ok /\ ValidateUser(hreq[h].input)}

\* What a call does when the email of its body is already stored: 422 with the
\* error document, and no row, permission, token or task of its own.
DuplicateStep ==
    \A h \in Regs :
        (/\ hreq[h].pc = "idle" /\ hreq'[h].pc # "idle"
         /\ hreq'[h].input.ok /\ ValidateUser(hreq'[h].input)
         /\ hreq'[h].fault \notin {"Password.Set", "Users.Insert"}
         /\ EmailTaken(users, hreq'[h].input.email, 0))
        => /\ hreq'[h].status = 422
           /\ hreq'[h].body = <<"error">>
           /\ hreq'[h].pc = "done"
           /\ hreq'[h].spawned = 0
           /\ users' = users /\ nextUserId' = nextUserId
           /\ perms' = perms /\ tokens' = tokens /\ issued' = issued
           /\ task' = task /\ wg' = wg

\* Of the calls that registered one email, at most one inserted the user, and
\* exactly one did when none of them was cut short by a failing statement and the
\* email was not stored before; it is the one answered 202, the others got 422.
OneRegistration ==
    \A email \in {b.email : b \in RegBodies} :
        LET R == Registered(email)
            won == {h \in R : hreq[h].user # 0}
        IN  /\ Cardinality(won) <= 1
            /\ \A h \in R \ won : hreq[h].fault = "none" => hreq[h].status = 422
            /\ \A h \in won : hreq[h].fault = "none" /\ hreq[h].pc \in {"check", "done"} =>
                  hreq[h].status = 202
            /\ (/\ R # {}
                /\ \A h \in R : hreq[h].fault = "none"
                /\ ~EmailTaken(SeedUsers, email, 0)) => Cardinality(won) = 1

\* C21: a registration with an email already stored answers 422 with a field error
\* and adds no user, permission, token or task; of the registrations of one email
\* exactly one inserts the user and answers 202.
C21_DuplicateEmail == [][DuplicateStep]_vars /\ []OneRegistration

\* Two calls registered the same new email: one was answered 202, the other 422.
C21_Witness ==
    \E h1, h2 \in Regs :
        /\ hreq[h1].input.email = "cat@x.com" /\ hreq[h2].input.email = "cat@x.com"
        /\ hreq[h1].pc = "done" /\ hreq[h1].status = 202
        /\ hreq[h2].pc = "done" /\ hreq[h2].status = 422 /\ hreq[h2].fault = "none"
        /\ ValidateUser(hreq[h2].input)

\* What a PATCH answered 200 did to the table, against the row as it was stored
\* when Update ran: the fields of the body are written, the others kept, the
\* version is one more, and no other row is touched.
PatchEffect(r, body) ==
    LET id == mreq[r].id
    IN  mreq'[r].status = 200 =>
            /\ id \in DOMAIN movies /\ DOMAIN movies' = DOMAIN movies
            /\ movies'[id].title = IF body.title.has THEN body.title.val ELSE movies[id].title
            /\ movies'[id].year = IF body.year.has THEN body.year.val ELSE movies[id].year
            /\ movies'[id].runtime =
                  IF body.runtime.has THEN body.runtime.val ELSE movies[id].runtime
            /\ movies'[id].genres =
                  IF body.genres.has THEN body.genres.val ELSE movies[id].genres
            /\ movies'[id].created_at = movies[id].created_at
            /\ movies'[id].version = movies[id].version + 1
            /\ mreq'[r].id = id
            /\ \A i \in DOMAIN movies \ {id} : movies'[i] = movies[i]
            /\ nextId' = nextId

\* C22: a successful PATCH changes exactly the fields its body holds, keeps the
\* other fields, the id and created_at, and adds exactly 1 to the version.
C22_PatchWritesItsFields ==
    [][\A r \in Reqs, body \in PatchBodies : PatchUpdate(r, body) => PatchEffect(r, body)]_vars

\* A PATCH with only the year was answered 200: the row has the new year, the
\* title, runtime and genres it had, and version 2.
C22_Witness ==
    \E r \in Reqs :
        /\ mreq[r].route = "PATCH" /\ mreq[r].pc = "done" /\ mreq[r].status = 200
        /\ mreq[r].post.year = 2020 /\ mreq[r].post.title = 5
        /\ mreq[r].post.runtime = 117 /\ mreq[r].post.genres = <<"horror">>
        /\ mreq[r].post.version = 2

\* The requests that updated a movie, and the one that inserted it.
Updates(id) ==
    {r \in Reqs : /\ mreq[r].route = "PATCH" /\ mreq[r].pc = "done"
                  /\ mreq[r].status = 200 /\ mreq[r].id = id}
Inserts(id) ==
    {r \in Reqs : /\ mreq[r].route = "POST" /\ mreq[r].pc = "done"
                  /\ mreq[r].status = 201 /\ mreq[r].id = id}

SameFields(a, b) ==
    /\ a.title = b.title /\ a.year = b.year
    /\ a.runtime = b.runtime /\ a.genres = b.genres

\* C23: Get of a stored movie returns version 1 and the fields of its Insert while
\* no update succeeded, and after k successful updates version 1 + k and the fields
\* the last of them wrote.
C23_GetReturnsLastWrite ==
    \A id \in DOMAIN movies :
        LET got == MovieGet(movies, id)
            k == Cardinality(Updates(id))
        IN  /\ got.err = ErrNil
            /\ got.movie.id = id
            /\ got.movie.version = 1 + k
            /\ k = 0 => \A r \in Inserts(id) : SameFields(got.movie, mreq[r].movie)
            /\ k >= 1 =>
                  /\ got.movie.version > 1
                  /\ \E r \in Updates(id) :
                        /\ mreq[r].movie.version = 1 + k
                        /\ SameFields(got.movie, mreq[r].movie)
                        /\ \A o \in Updates(id) \ {r} : mreq[o].movie.version < 1 + k

\* A movie was inserted and never updated, another was updated twice with
\* different years.
C23_Witness ==
    /\ \E id \in DOMAIN movies : Inserts(id) # {} /\ Updates(id) = {}
    /\ \E id \in DOMAIN movies :
          /\ Cardinality(Updates(id)) = 2
          /\ \E r, o \in Updates(id) : mreq[r].movie.year # mreq[o].movie.year

\* The error a call of a handler got from the store: that of its last store call.
StoreError(c) == IF c.store = <<>> THEN ErrNil ELSE c.store[Len(c.store)].err

\* The status a store error maps to, by the taxonomy: 404, 422 with a field error
\* on email, 409, 500.
MapsAsTaxonomy(c) ==
    LET e == StoreError(c)
    IN  /\ e = ErrRecordNotFound => c.resp.status = 404
        /\ e = ErrDuplicateEmail =>
              c.resp.status = 422 /\ c.resp.error = "fields" /\ "email" \in c.resp.fields
        /\ e = ErrEditConflict => c.resp.status = 409
        /\ e = ErrStore => c.resp.status = 500
        /\ e # ErrNil => c.resp.status \notin 200 .. 299

WriteMethods ==
    {"Movies.Insert", "Movies.Update", "Movies.Delete", "Users.Insert", "Users.Update",
     "Permissions.AddForUser", "Tokens.New", "Tokens.DeleteAllForUser"}

\* The handlers C25 names.
InputHandlers ==
    {"createMovieHandler", "updateMovieHandler", "registerUserHandler",
     "activateUserHandler"}

\* The calls of c that changed the store: a write method that returned no error.
Wrote(c) ==
    {k \in 1 .. Len(c.store) : c.store[k].op \in WriteMethods /\ c.store[k].err = ErrNil}

\* C25: a call of createMovieHandler, updateMovieHandler, registerUserHandler or
\* activateUserHandler that is answered 400 (malformed body) or 422 (failed
\* validation) made no insert, update or delete that took effect: the store is as
\* it was before the request.
C25_RejectedInputWritesNothing ==
    \A i \in 1 .. Len(olog) :
        olog[i].handler \in InputHandlers /\ olog[i].resp.status \in {400, 422}
            => Wrote(olog[i]) = {}

\* createMovieHandler answered 422 without a call of the store, and
\* registerUserHandler answered 422 after an Insert the unique constraint refused.
C25_Witness ==
    \E i, j \in 1 .. Len(olog) :
        /\ olog[i].handler = "createMovieHandler" /\ olog[i].resp.status = 422
        /\ olog[i].store = <<>>
        /\ olog[j].handler = "registerUserHandler" /\ olog[j].resp.status = 422
        /\ olog[j].store = <<Did("Users.Insert", ErrDuplicateEmail)>>
\* ---------------------------------------------------------------------------
\* C26: error responses carry the JSON error envelope

\* The body of resp is one JSON object whose only key is error, holding a string
\* or an object of field errors.
ErrorEnvelope(resp) ==
    /\ resp.ctype = "application/json"
    /\ resp.keys = {"error"}
    /\ resp.error \in {"string", "fields"}

\* C26: every response with a 4xx or 5xx status that a route handler produces
\* carries a JSON body that is a single object with the key error.
C26_ErrorsAreJSON ==
    \A i \in 1 .. Len(olog) :
        olog[i].resp.status >= 400 => ErrorEnvelope(olog[i].resp)
\* ---------------------------------------------------------------------------
\* C27: authenticate does not tell why a token is refused

\* A well-formed token that TokenModel.New never returns.
NeverIssued == [n |-> 0, len |-> TokenLen]

\* The tokens issued with a plaintext, and why such a token is no live
\* authentication token.
IssuedAs(plaintext) == {t \in issued : t.plaintext = plaintext}
Expired(plaintext) ==
    \E t \in IssuedAs(plaintext) : t.scope = ScopeAuthentication /\ t.expiry <= now
Revoked(plaintext) == \E t \in IssuedAs(plaintext) : t.revoked
OtherScope(plaintext) ==
    /\ IssuedAs(plaintext) # {}
    /\ \A t \in IssuedAs(plaintext) : t.scope # ScopeAuthentication

\* What a client sees of authenticate's answer to a bearer token: the status, the
\* WWW-Authenticate header and the message of the body.
Observable(plaintext) ==
    LET d == AuthenticateDecision(<<"Bearer", plaintext>>, tokens, users, now)
    IN  <<d.status, d.challenge, d.message>>

\* C27: authenticate's response to a well-formed bearer token that has expired, was
\* revoked or was issued under another scope only is the response to a token that
\* was never issued.
C27_RefusalsIndistinguishable ==
    \A p \in Plains :
        ValidateTokenPlaintext(p) /\ (Expired(p) \/ Revoked(p) \/ OtherScope(p))
            /\ Live(p, ScopeAuthentication) = {}
            => /\ Observable(p) = Observable(NeverIssued)
               /\ Observable(p)[1] = 401

\* An expired authentication token and a revoked activation token exist, and
\* authenticate has refused a request presenting the expired one.
C27_Witness ==
    \E p, q \in Plains :
        /\ ValidateTokenPlaintext(p) /\ Expired(p) /\ Live(p, ScopeAuthentication) = {}
        /\ ValidateTokenPlaintext(q) /\ Revoked(q) /\ OtherScope(q)
        /\ \E r \in AReqs :
              /\ areq[r].pc = "done" /\ areq[r].header = <<"Bearer", p>>
              /\ areq[r].status = 401
\* ---------------------------------------------------------------------------
\* C30: no query is built from an unlisted sort value

\* The columns of the safelist.
SortColumns == {<<"id">>, <<"title">>, <<"year">>, <<"runtime">>}

\* C30: listMoviesHandler answers a sort value outside the safelist with 422 and
\* does not call GetAll; sortColumn panics for a sort value outside the safelist;
\* every query built orders by a column of the safelist.
C30_UnlistedSortBuildsNoQuery ==
    \A i \in 1 .. Len(olog) :
        LET c == olog[i]
        IN  /\ c.handler = "listMoviesHandler" =>
                 /\ ~c.panic
                 /\ c.input.Sort \notin SortSafelist =>
                       /\ c.resp.status = 422 /\ "sort" \in c.resp.fields
                       /\ c.store = <<>> /\ c.query = <<>>
            /\ c.handler = "MovieModel.GetAll" =>
                 (c.input.Sort \notin SortSafelist => c.panic /\ c.query = <<>>)
            /\ c.query # <<>> =>
                 c.query[1] \in SortColumns /\ c.query[2] \in {"ASC", "DESC"}

\* listMoviesHandler refused an unlisted sort value, and a direct call of GetAll
\* with an unlisted sort value panicked.
C30_Witness ==
    \E i, j \in 1 .. Len(olog) :
        /\ olog[i].handler = "listMoviesHandler"
        /\ olog[i].input.Sort \in UnlistedSorts /\ olog[i].resp.status = 422
        /\ olog[j].handler = "MovieModel.GetAll"
        /\ olog[j].input.Sort \in UnlistedSorts /\ olog[j].panic
\* ---------------------------------------------------------------------------
\* C28: Access-Control-Allow-Origin only for a trusted origin

\* The origin is, string for string, an entry of the list.
Trusts(trustedOrigins, origin) ==
    \E i \in 1 .. Len(trustedOrigins) : trustedOrigins[i] = origin

\* C28: enableCORS sets Access-Control-Allow-Origin only when the request's Origin
\* is an entry of the trusted origins, and then to that origin; with no trusted
\* origin configured, no Origin header or an Origin that is no entry, it does not
\* set the header.
C28_AllowOriginOnlyTrusted ==
    \A i \in 1 .. Len(olog) :
        LET c == olog[i]
        IN  /\ c.cors.allowOrigin # "" =>
                 /\ Trusts(c.trusted, c.request.origin)
                 /\ c.cors.allowOrigin = c.request.origin
            /\ (c.trusted = <<>> \/ c.request.origin = ""
                    \/ ~Trusts(c.trusted, c.request.origin)) =>
                 c.cors.allowOrigin = ""

\* One call reflected a trusted origin, another did not set the header for an
\* origin that differs from the trusted one in the case of a letter.
C28_Witness ==
    \E i, j \in 1 .. Len(olog) :
        /\ olog[i].request.origin = "https://a.example"
        /\ olog[i].cors.allowOrigin = "https://a.example"
        /\ olog[j].request.origin = "https://A.example"
        /\ olog[j].trusted # <<>> /\ olog[j].cors.allowOrigin = ""

\* ---------------------------------------------------------------------------
\* C29: preflight requests are answered by enableCORS

Preflight(r) == r.method = "OPTIONS" /\ r.acrm # ""

\* The request of slot g went through enableCORS.
ThroughCORS(g) == \E k \in 1 .. Len(preq[g].trail) : preq[g].trail[k] = "enableCORS"

\* enableCORS answered the request of slot g with 200 and the allowed methods and
\* headers, and no layer inside it ran.
ShortCircuited(g) ==
    /\ preq[g].by = "enableCORS" /\ preq[g].status = 200
    /\ preq[g].cors.allowMethods = "OPTIONS, PUT, PATCH, DELETE"
    /\ preq[g].cors.allowHeaders = "Authorization, Content-Type"
    /\ preq[g].trail = <<"metrics", "recoverPanic", "enableCORS">>

\* C29 as stated: every preflight request (OPTIONS with Access-Control-Request-Method)
\* is answered by enableCORS with 200 and the allowed methods and headers, and no
\* layer inside enableCORS runs.
C29_PreflightShortCircuits ==
    \A g \in PipeReqs :
        ThroughCORS(g) /\ Preflight(preq[g].request) => ShortCircuited(g)

\* The step in which enableCORS answers a request leaves the limiter's clients and
\* their buckets as they are.
AnswerKeepsBuckets ==
    \A g \in PipeReqs :
        preq[g].by # "enableCORS" /\ preq'[g].by = "enableCORS" => clients' = clients

\* C29 amended: a preflight request whose Origin is one of the trusted origins is
\* answered by enableCORS with 200 and the allowed methods and headers, no layer
\* inside enableCORS runs, and no token of the rate limiter is taken.
C29_TrustedPreflightShortCircuits ==
    /\ [](\A g \in PipeReqs :
            /\ ThroughCORS(g) /\ Preflight(preq[g].request)
            /\ Trusts(PipeTrustedOrigins, preq[g].request.origin)
            => ShortCircuited(g))
    /\ [][AnswerKeepsBuckets]_vars

\* The response to a preflight request of the trusted origin was sent, answered by
\* enableCORS, and the rate limiter has seen no client.
C29_Witness ==
    \E g \in PipeReqs :
        /\ Preflight(preq[g].request)
        /\ Trusts(PipeTrustedOrigins, preq[g].request.origin)
        /\ ShortCircuited(g)
        /\ sent > 0
        /\ DOMAIN clients = {}
\* ---------------------------------------------------------------------------
\* C31: pages are consecutive slices of one ordering

\* The unpaginated result of the query of call c: its first page at a page size no
\* table exceeds.
Unpaginated(c) ==
    GetAllRows(movies, c.genres, [c.input EXCEPT !.Page = 1, !.PageSize = MaxRows + 1]).movies

\* The rows from..to of a sequence, cut at its end.
Slice(seq, from, to) ==
    IF from > Min(to, Len(seq)) THEN <<>> ELSE SubSeq(seq, from, Min(to, Len(seq)))

\* The rows are in the order of the sort column in its direction, then id ascending.
InOrder(rows, c) ==
    \A a, b \in 1 .. Len(rows) :
        a < b => Before(movies, rows[a].id, rows[b].id, TrimPrefix(c.input.Sort, "-"),
                        IF HasPrefix(c.input.Sort, "-") THEN "DESC" ELSE "ASC")

SameQuery(c, d) ==
    /\ c.input.Sort = d.input.Sort /\ c.input.PageSize = d.input.PageSize
    /\ c.genres = d.genres

\* C31: with no write in between, GetAll for page p of size s returns rows
\* (p-1)*s to p*s-1 of the unpaginated result, which is ordered by the sort column
\* in the requested direction, then id ascending; page 1 and page 2 of the same
\* query are disjoint and their concatenation is the first 2*s rows of it.
C31_PagesAreSlices ==
    \A i, j \in 1 .. Len(olog) :
        LET c == olog[i]
            d == olog[j]
            s == c.input.PageSize
            p == c.input.Page
            u == Unpaginated(c)
        IN  /\ InOrder(u, c)
            /\ {u[k].id : k \in 1 .. Len(u)} = Matching(movies, c.genres)
            /\ c.movies = Slice(u, (p - 1) * s + 1, p * s)
            /\ SameQuery(c, d) /\ p = 1 /\ d.input.Page = 2 =>
                  /\ \A a \in 1 .. Len(c.movies), b \in 1 .. Len(d.movies) :
                        c.movies[a].id # d.movies[b].id
                  /\ c.movies \o d.movies = Slice(u, 1, 2 * s)

\* Page 1 and page 2 of a query sorted by year were read, two rows each, and the
\* rows of page 1 tie on the year.
C31_Witness ==
    \E i, j \in 1 .. Len(olog) :
        /\ SameQuery(olog[i], olog[j])
        /\ olog[i].input.Sort = <<"year">> /\ olog[i].input.PageSize = 2
        /\ olog[i].input.Page = 1 /\ olog[j].input.Page = 2
        /\ Len(olog[i].movies) = 2 /\ Len(olog[j].movies) = 2
        /\ olog[i].movies[1].year = olog[i].movies[2].year
\* ---------------------------------------------------------------------------
\* C32: the metadata is derived from the count of matching records

\* C32: for a filter matching T records, GetAll's metadata is current_page = page,
\* page_size, first_page = 1, last_page = ceil(T / page_size), total_records = T when
\* T > 0, and the zero value when T = 0.
C32_MetadataFromTotal ==
    \A i \in 1 .. Len(olog) :
        LET c == olog[i]
            T == Cardinality(Matching(movies, c.genres))
            s == c.input.PageSize
        IN  c.metadata =
               IF T = 0
               THEN [current_page |-> 0, page_size |-> 0, first_page |-> 0,
                     last_page |-> 0, total_records |-> 0]
               ELSE [current_page |-> c.input.Page, page_size |-> s, first_page |-> 1,
                     last_page |-> IF T % s = 0 THEN T \div s ELSE T \div s + 1,
                     total_records |-> T]
\* ---------------------------------------------------------------------------
\* C33: the first error of a key wins

\* The calls that record a failure for a key: AddError, and Check with a false
\* condition.
Failures(key) == {k \in 1 .. Len(olog) : olog[k].key = key /\ ~olog[k].ok}

\* C33: after any sequence of Check and AddError calls, Errors[key] is the message
\* of the first failure recorded for the key, Errors holds a key only if a failure
\* was recorded for it (a Check with a true condition records none), and Valid() is
\* true iff no failure was recorded.
C33_FirstErrorWins ==
    /\ \A key \in {"title", "year"} :
          IF Failures(key) = {}
          THEN key \notin DOMAIN Errors
          ELSE /\ key \in DOMAIN Errors
               /\ LET first == CHOOSE k \in Failures(key) : \A n \in Failures(key) : k <= n
                  IN  Errors[key] = olog[first].message
    /\ Valid(Errors) <=> \A k \in 1 .. Len(olog) : olog[k].ok

\* Two failures with different messages were recorded for title after a Check that
\* held, and the validator is not valid.
C33_Witness ==
    /\ Len(olog) = 3
    /\ olog[1].handler = "Check" /\ olog[1].ok
    /\ olog[2].key = "title" /\ ~olog[2].ok
    /\ olog[3].key = "title" /\ ~olog[3].ok /\ olog[3].message # olog[2].message
    /\ ~Valid(Errors)
\* ---------------------------------------------------------------------------
\* C34: Send tries three times at most

\* The error Send returned.
MailResult == (CHOOSE k \in 1 .. Len(olog) : olog[k].handler = "return")

MailSafe ==
    /\ Len(Attempts) <= 3
    /\ \A k \in 1 .. Len(Attempts) - 1 : Attempts[k].err # ErrNil
    /\ MailReturned =>
          /\ olog[Len(olog)].handler = "return"
          /\ olog[1].err = ErrNil =>
                /\ Len(Attempts) >= 1
                /\ olog[MailResult].err = Attempts[Len(Attempts)].err
                /\ olog[MailResult].err # ErrNil => Len(Attempts) = 3

\* C34: Send makes at most 3 attempts, makes none after one that succeeded and then
\* returns nil, returns the error of the third attempt when all 3 fail, and
\* returns in the end.
C34_SendTriesThrice == []MailSafe /\ <>MailReturned

\* Three attempts failed and Send returned the error of the third, which is not
\* the error of the second.
C34_Witness ==
    /\ MailReturned
    /\ Len(Attempts) = 3
    /\ Attempts[2].err # Attempts[3].err
    /\ olog[MailResult].err = Attempts[3].err
    /\ Attempts[3].err # ErrNil
\* ---------------------------------------------------------------------------
\* C35: an activation token activates once

\* The requests to PUT /v1/users/activated that presented a plaintext and were
\* answered.
Presented(plaintext) ==
    {r \in DOMAIN areq : /\ areq[r].pc = "done"
                         /\ areq[r].route = "PUT /v1/users/activated"
                         /\ areq[r].plaintext = plaintext}

\* C35: of the requests presenting one valid activation token, in any order and
\* interleaving, at most one is answered 200 and the user's version grows by
\* exactly 1; every other one is answered 409 or 422.
C35_ActivatesOnce ==
    \A p \in Plains :
        LET ok == {r \in Presented(p) : areq[r].status = 200}
        IN  /\ Cardinality(ok) <= 1
            /\ \A r \in Presented(p) \ ok : areq[r].status \in {409, 422}
            /\ ok # {} => users[3].version = NewUser.version + 1
\* ---------------------------------------------------------------------------
\* C36: a successful activation revokes the user's activation tokens only

\* Request r is answered 200 by activateUserHandler in this step.
Activated200(r) ==
    /\ areq[r].pc = "revoking"
    /\ areq'[r].pc = "done" /\ areq'[r].status = 200

\* The rows of the tokens table other than the activation tokens of a user.
OtherTokens(table, userID) ==
    {t \in table : ~(t.scope = ScopeActivation /\ t.user_id = userID)}

\* What holds when request r is answered 200: the user is activated, none of the
\* user's activation tokens is left and the plaintext presented resolves to no
\* user, and every other token is as it was.
ActivationEffect(r) ==
    LET u == areq[r].user.id
    IN  /\ users'[u].activated
        /\ \A t \in tokens' : ~(t.scope = ScopeActivation /\ t.user_id = u)
        /\ GetForToken(tokens', users', ScopeActivation, areq[r].plaintext, now').err
              = ErrRecordNotFound
        /\ OtherTokens(tokens', u) = OtherTokens(tokens, u)

\* C36: when PUT /v1/users/activated responds 200, the user is activated and no
\* activation token of that user remains valid (the same plaintext is refused),
\* while the user's authentication tokens and every other user's tokens are
\* unchanged.
C36_ActivationRevokesOwnTokens ==
    [][\A r \in ActSlots : Activated200(r) => ActivationEffect(r)]_vars

\* A request was answered 200 for user 3, whose authentication token and the
\* activation token of user 2 are still in the table.
C36_Witness ==
    /\ \E r \in ActSlots : /\ areq[r].pc = "done" /\ areq[r].status = 200
                           /\ areq[r].user.id = 3
    /\ users[3].activated
    /\ \E t \in tokens : t.scope = ScopeAuthentication /\ t.user_id = 3
    /\ \E t \in tokens : t.scope = ScopeActivation /\ t.user_id = 2
    /\ ~\E t \in tokens : t.scope = ScopeActivation /\ t.user_id = 3

(***************************************************************************)
(* Claims about a movie deleted under a PATCH, and about what follows a    *)
(* Delete (SpecMovies).                                                    *)
(***************************************************************************)
\* A successful Delete(id) has been answered.
DeletedBefore(id) ==
    \E d \in Reqs :
        /\ mreq[d].pc = "done"
        /\ mreq[d].route = "DELETE"
        /\ mreq[d].status = 200
        /\ mreq[d].id = id

\* Request r's updateMovieHandler calls Update in this step, on a record that was
\* deleted after r's Get read it.
UpdatesDeleted(r) ==
    /\ mreq[r].pc = "loaded"
    /\ mreq'[r].pc = "done"
    /\ mreq'[r].updated
    /\ DeletedBefore(mreq[r].id)

\* Request r's showMovieHandler or deleteMovieHandler runs in this step, on the id
\* of a record deleted before.
ReadsDeleted(r) ==
    /\ mreq[r].pc = "idle"
    /\ mreq'[r].pc = "done"
    /\ mreq'[r].route \in {"GET", "DELETE"}
    /\ DeletedBefore(mreq'[r].id)

\* C37: a PATCH whose record was deleted between its Get and its Update is answered
\* 409, neither 404 nor 200, and leaves the movies table as it was, the record not
\* re-created; after a successful Delete(id) the record stays absent, and every
\* later Get(id) and Delete(id) answers not-found and changes nothing.
C37_DeletedStaysDeleted ==
    [][/\ \A r \in Reqs :
            /\ UpdatesDeleted(r) => (mreq'[r].status = 409 /\ movies' = movies)
            /\ ReadsDeleted(r) => (mreq'[r].status = 404 /\ movies' = movies)
       /\ \A id \in PathIds :
            DeletedBefore(id) => (id \notin DOMAIN movies /\ id \notin DOMAIN movies')]_vars

\* A PATCH answered 409 after the record its Get read, at the version it read, was
\* deleted by another request, and a later GET of the same id answered 404.
C37_Witness ==
    \E r, d, g \in Reqs :
        /\ mreq[r].route = "PATCH" /\ mreq[r].updated /\ mreq[r].status = 409
        /\ mreq[d].route = "DELETE" /\ mreq[d].status = 200
        /\ mreq[d].id = mreq[r].id
        /\ mreq[d].seen = mreq[r].seen
        /\ mreq[g].route = "GET" /\ mreq[g].status = 404 /\ mreq[g].id = mreq[r].id
        /\ mreq[r].id \notin DOMAIN movies

(***************************************************************************)
(* Claims about the validity of the records the handlers write             *)
(* (SpecMovies).                                                           *)
(***************************************************************************)
\* The conditions on a movie record: a title of 1 to 500 bytes, a year from 1888
\* to the current year, a positive runtime and 1 to 5 genres, no two the same.
WellFormed(m) ==
    /\ m.title >= 1 /\ m.title <= 500
    /\ m.year >= 1888 /\ m.year <= CurrentYear
    /\ m.runtime > 0
    /\ Len(m.genres) \in 1 .. 5
    /\ \A i, j \in DOMAIN m.genres : m.genres[i] = m.genres[j] => i = j

\* Request r's createMovieHandler or updateMovieHandler writes a row in this step.
Writes(r) ==
    /\ mreq[r].pc # "done"
    /\ mreq'[r].pc = "done"
    /\ mreq'[r].route \in {"POST", "PATCH"}
    /\ mreq'[r].changed

\* C38: every row createMovieHandler or updateMovieHandler writes is well formed
\* when it is written, and the row written is the record the handler validated;
\* a PATCH, whatever fields it carries, leaves every well-formed row well formed.
C38_WritesAreValid ==
    [][\A r \in Reqs :
          /\ Writes(r) =>
                /\ mreq'[r].id \in DOMAIN movies'
                /\ WellFormed(movies'[mreq'[r].id])
                /\ WellFormed(mreq'[r].movie)
                /\ RowToMovie(movies', mreq'[r].id) = mreq'[r].movie
          /\ (mreq[r].pc = "loaded" /\ mreq'[r].pc = "done") =>
                \A id \in DOMAIN movies :
                    WellFormed(movies[id]) => (id \in DOMAIN movies' /\ WellFormed(movies'[id]))]_vars

\* A PATCH with all four fields written over a well-formed record, a PATCH with no
\* genre refused with 422 and a PATCH with a genre twice refused with 422.
C38_Witness ==
    \E r1, r2, r3 \in Reqs :
        /\ mreq[r1].route = "PATCH" /\ mreq[r1].status = 200 /\ mreq[r1].changed
        /\ mreq[r1].post.genres = <<"scifi", "drama">>
        /\ mreq[r1].id \in DOMAIN movies /\ WellFormed(movies[mreq[r1].id])
        /\ mreq[r2].route = "PATCH" /\ mreq[r2].status = 422 /\ mreq[r2].movie.genres = <<>>
        /\ mreq[r3].route = "PATCH" /\ mreq[r3].status = 422
        /\ Len(mreq[r3].movie.genres) = 2
        /\ ~mreq[r2].changed /\ ~mreq[r3].changed

(***************************************************************************)
(* Claims about the user in the request context (SpecAuth).                *)
(***************************************************************************)
\* Request q went past authenticate: it is with the router, at a gate or in a
\* handler, or it was answered by one of them.
PastAuthenticate(q) == q.pc = "routed" \/ q.route # "none"

\* The user is one GetForToken read from the users table.
Resolved(user) ==
    /\ user.ptr = "new"
    /\ user.id \in DOMAIN users
    /\ user.email = users[user.id].email

\* C39: every request that went past authenticate to a gate or a handler has a user
\* in its context, the AnonymousUser instance or a user read from the store, so
\* contextGetUser does not panic; IsAnonymous holds of the instance put there for a
\* request without Authorization header and of no user resolved from a token.
C39_ContextHasUser ==
    \A r \in AReqs :
        LET q == areq[r]
            got == ContextGetUser(q)
        IN  PastAuthenticate(q) =>
               /\ ~got.panic
               /\ q.message # "missing user value in request context"
               /\ got.user = AnonymousUser \/ Resolved(got.user)
               /\ IsAnonymous(got.user) <=> q.header = <<>>
               /\ q.lookup => (~IsAnonymous(got.user) /\ Resolved(got.user))

\* A request with a valid token answered by requirePermission, its gates having
\* read user 1 from the context and loaded that user's permissions.
C39_Witness ==
    \E r \in AReqs :
        /\ areq[r].pc = "done"
        /\ areq[r].gated /\ areq[r].loaded
        /\ areq[r].lookup
        /\ ~ContextGetUser(areq[r]).panic
        /\ ContextGetUser(areq[r]).user.id = 1
        /\ ~IsAnonymous(ContextGetUser(areq[r]).user)

(***************************************************************************)
(* Claims about the sends of serve's goroutine on shutdownError            *)
(* (SpecServe).                                                            *)
(***************************************************************************)
\* serve's goroutine is at a send on shutdownError.
AtSend == srv.go \in {"send err", "send nil"}

\* serve has returned to main, with the error of Shutdown or with nil.
Reported == srv.main \in {"returned nil", "returned err"}

\* C40: on every shutdown path serve's goroutine terminates: whenever it is at a
\* send on shutdownError serve is at its receive, and once serve has reported its
\* one outcome the goroutine has ended, with no statement and no send left to run.
C40_SendsAreReceived ==
    /\ AtSend => srv.main = "receive"
    /\ Reported => srv.go = "end"

=============================================================================
